---- MODULE Spec2Model ----
(***************************************************************************)
(* A model of the go-dicom codec: the bounded streaming Decoder and the    *)
(* Encoder (buffer.go), the Decoder of the older revision (part_006),      *)
(* the element reader (dicom.go, ReadElement and its                       *)
(* helpers), the element writers (writer.go EncodeDataElement and the      *)
(* later WriteElement), the file header codec and the transfer-syntax      *)
(* resolver.                                                               *)
(*                                                                         *)
(* Bytes are integers 0..255, byte strings and Go strings are sequences of *)
(* bytes (the decoder's coding system is left at its default, ASCII, so a  *)
(* string is its bytes).  A Go error is a string naming it, "nil" when     *)
(* there is none.  A Go panic (failed doassert, nil dereference, failed    *)
(* type assertion, slice out of range) is the flag "crashed" of the        *)
(* decoder or encoder it happened under.                                   *)
(***************************************************************************)
EXTENDS Integers, Sequences, FiniteSets, TLC

VARIABLES
  d,        \* Spec: the Decoder under test
  out,      \* Spec: the last operation, its argument, its result, the decoder before it
  lim,      \* Spec: history of the last PushLimit: bytes allowed, bytes read since
  pc,       \* codec specifications: position in the write/read pipeline
  inp,      \* codec specifications: the input drawn by Init
  enc,      \* codec specifications: the Encoder being written to
  res,      \* codec specifications: what the reader returned, in order
  idx       \* codec specifications: the next element of the input to write

vars == <<d, out, lim, pc, inp, enc, res, idx>>

\* ------------------------------------------------------------------ bounds

MaxData == 3
MaxArg == 2
MaxDepth == 2
MaxChunk == 1

\* ------------------------------------------------------------------ helpers

\* Let(v, F) is F applied to the value v: the body F names a result that the
\* code holds in a local variable.
Let(v, F(_)) == F(v)

Min(a, b) == IF a < b THEN a ELSE b

Take(s, n) == SubSeq(s, 1, Min(n, Len(s)))

Drop(s, n) == SubSeq(s, Min(n, Len(s)) + 1, Len(s))

Zeros(n) == [i \in 1..n |-> 0]

LittleEndian == "LittleEndian"
BigEndian == "BigEndian"

ImplicitVR == "ImplicitVR"
ExplicitVR == "ExplicitVR"
UnknownVR == "UnknownVR"

\* encoding/binary: ByteOrder.PutUint16 / PutUint32 and Uint16 / Uint32
PutUint16(bo, v) ==
  IF bo = LittleEndian THEN <<v % 256, (v \div 256) % 256>>
  ELSE <<(v \div 256) % 256, v % 256>>

PutUint32(bo, v) ==
  IF bo = LittleEndian
  THEN <<v % 256, (v \div 256) % 256, (v \div 65536) % 256, (v \div 16777216) % 256>>
  ELSE <<(v \div 16777216) % 256, (v \div 65536) % 256, (v \div 256) % 256, v % 256>>

Uint16(bo, b) ==
  IF bo = LittleEndian THEN b[1] + 256 * b[2] ELSE b[2] + 256 * b[1]

\* A uint32 is held in two's complement: values from 2^31 up are the negative
\* numbers, 0xffffffff is -1.
Signed8(b) == IF b >= 128 THEN b - 256 ELSE b

Uint32(bo, b) ==
  IF bo = LittleEndian
  THEN b[1] + 256 * b[2] + 65536 * b[3] + 16777216 * Signed8(b[4])
  ELSE b[4] + 256 * b[3] + 65536 * b[2] + 16777216 * Signed8(b[1])

\* ------------------------------------------------------------------ Decoder

\* The io.Reader under the decoder: "in" holds the bytes not yet handed out,
\* "chunk" the most bytes one Read call returns (0: as many as asked for, the
\* behaviour of bytes.Buffer).  "mem" is the memory the process may take for
\* one value, in bytes (0: as much as it asks for).
NewDecoder(data, chunk, limit, bo, implicit) ==
  [in |-> data, chunk |-> chunk, err |-> "nil", bo |-> bo, implicit |-> implicit,
   limit |-> limit, pos |-> 0, oldTransferSyntaxes |-> <<>>, oldLimits |-> <<>>,
   crashed |-> FALSE, mem |-> 0]

NewBytesDecoder(data, bo, implicit) == NewDecoder(data, 0, Len(data), bo, implicit)

SetError(dec, err) == IF dec.err = "nil" THEN [dec EXCEPT !.err = err] ELSE dec

TransferSyntax(x) == [bo |-> x.bo, implicit |-> x.implicit]

PushTransferSyntax(x, bo, implicit) ==
  [x EXCEPT !.oldTransferSyntaxes = Append(@, [bo |-> x.bo, implicit |-> x.implicit]),
            !.bo = bo, !.implicit = implicit]

PopTransferSyntax(x) ==
  IF x.oldTransferSyntaxes = <<>> THEN [x EXCEPT !.crashed = TRUE]
  ELSE LET e == x.oldTransferSyntaxes[Len(x.oldTransferSyntaxes)]
       IN [x EXCEPT !.bo = e.bo, !.implicit = e.implicit,
                    !.oldTransferSyntaxes = SubSeq(@, 1, Len(@) - 1)]

DecLen(dec) == dec.limit - dec.pos

\* A PushLimit that installs the limit asked for even beyond the current one.
PushLimitUnchecked(dec, bytes) ==
  IF dec.pos + bytes > dec.limit
  THEN [SetError(dec, "PushLimit") EXCEPT !.oldLimits = Append(@, dec.limit),
                                          !.limit = dec.pos + bytes]
  ELSE [dec EXCEPT !.oldLimits = Append(@, dec.limit), !.limit = dec.pos + bytes]

PushLimit(dec, bytes) ==
  LET newLimit == dec.pos + bytes
  IN IF newLimit > dec.limit
     THEN [SetError(dec, "PushLimit") EXCEPT !.oldLimits = Append(@, dec.limit),
                                             !.limit = dec.pos]
     ELSE [dec EXCEPT !.oldLimits = Append(@, dec.limit), !.limit = newLimit]

\* A PopLimit that leaves the limit installed once an error is recorded.
PopLimitOnSuccess(dec) ==
  IF dec.oldLimits = <<>> THEN [dec EXCEPT !.crashed = TRUE]
  ELSE IF dec.err # "nil" THEN dec
  ELSE [dec EXCEPT !.limit = dec.oldLimits[Len(dec.oldLimits)],
                   !.oldLimits = SubSeq(@, 1, Len(@) - 1)]

PopLimit(dec) ==
  IF dec.oldLimits = <<>> THEN [dec EXCEPT !.crashed = TRUE]
  ELSE [dec EXCEPT !.limit = dec.oldLimits[Len(dec.oldLimits)],
                   !.oldLimits = SubSeq(@, 1, Len(@) - 1)]

Error(dec) == dec.err

FinishIgnoresJunk(dec) == dec.err

Finish(dec) ==
  IF dec.err # "nil" THEN dec.err
  ELSE IF DecLen(dec) # 0 THEN "junk"
  ELSE "nil"

\* Decoder.Read(p) with len(p) = plen: [d, n, err, data].
ReadIgnoresLimit(dec, plen) ==
  IF dec.in = <<>> THEN [d |-> dec, n |-> 0, err |-> IF plen = 0 THEN "nil" ELSE "EOF", data |-> <<>>]
  ELSE LET n == IF dec.chunk = 0 THEN Min(plen, Len(dec.in))
                ELSE Min(Min(plen, Len(dec.in)), dec.chunk)
       IN [d |-> [dec EXCEPT !.in = Drop(@, n), !.pos = @ + n],
           n |-> n, err |-> "nil", data |-> Take(dec.in, n)]

Read(dec, plen) ==
  LET desired == DecLen(dec)
  IN IF desired = 0
     THEN [d |-> dec, n |-> 0, err |-> IF plen = 0 THEN "nil" ELSE "EOF", data |-> <<>>]
     ELSE LET want == IF desired < plen THEN desired ELSE plen
          IN \* n, err := d.in.Read(p[:want])
             IF dec.in = <<>>
             THEN [d |-> dec, n |-> 0, err |-> IF want = 0 THEN "nil" ELSE "EOF",
                   data |-> <<>>]
             ELSE LET n == IF dec.chunk = 0 THEN Min(want, Len(dec.in))
                           ELSE Min(Min(want, Len(dec.in)), dec.chunk)
                  IN [d |-> [dec EXCEPT !.in = Drop(@, n), !.pos = @ + n],
                      n |-> n, err |-> "nil", data |-> Take(dec.in, n)]

\* io.ReadFull(d, buf) as called by binary.Read: reads until "size" bytes are
\* in, or Read fails; EOF after some bytes is ErrUnexpectedEOF.
RECURSIVE ReadFull(_, _, _)
ReadFull(dec, size, got) ==
  IF Len(got) >= size THEN [d |-> dec, err |-> "nil", data |-> got]
  ELSE Let(Read(dec, size - Len(got)), LAMBDA r :
         IF r.err # "nil"
         THEN [d |-> r.d,
               err |-> IF Len(got) > 0 /\ r.err = "EOF" THEN "ErrUnexpectedEOF" ELSE r.err,
               data |-> got]
         ELSE ReadFull(r.d, size, got \o r.data))

\* binary.Read(d, d.bo, &v) followed by "if err != nil { d.SetError(err) }":
\* [d, v] with v left zero when the read failed.
DecodeByte(dec) ==
  Let(ReadFull(dec, 1, <<>>), LAMBDA r :
    IF r.err # "nil" THEN [d |-> SetError(r.d, r.err), v |-> 0]
    ELSE [d |-> r.d, v |-> r.data[1]])

DecodeUInt16(dec) ==
  Let(ReadFull(dec, 2, <<>>), LAMBDA r :
    IF r.err # "nil" THEN [d |-> SetError(r.d, r.err), v |-> 0]
    ELSE [d |-> r.d, v |-> Uint16(dec.bo, r.data)])

DecodeUInt32(dec) ==
  Let(ReadFull(dec, 4, <<>>), LAMBDA r :
    IF r.err # "nil" THEN [d |-> SetError(r.d, r.err), v |-> 0]
    ELSE [d |-> r.d, v |-> Uint32(dec.bo, r.data)])

\* The loop of DecodeBytes: every pass reads into v from its start
\* (d.Read(v)), and then cuts n bytes off "remaining".
RECURSIVE DecodeBytesLoop(_, _, _)
DecodeBytesLoop(dec, v, remaining) ==
  IF remaining <= 0 THEN [d |-> dec, v |-> v]
  ELSE Let(Read(dec, Len(v)), LAMBDA r :
         IF r.err # "nil" THEN [d |-> SetError(r.d, r.err), v |-> v]
         ELSE IF r.n > remaining
         THEN [d |-> [r.d EXCEPT !.crashed = TRUE], v |-> v]  \* remaining[n:] out of range
         ELSE DecodeBytesLoop(r.d, r.data \o Drop(v, r.n), remaining - r.n))

DecodeBytes(dec, length) ==
  IF DecLen(dec) < length THEN [d |-> SetError(dec, "DecodeBytes"), v |-> <<>>]
  ELSE DecodeBytesLoop(dec, Zeros(length), length)

\* internalDecodeString with a nil string decoder (ASCII).
DecodeString(dec, length) == DecodeBytes(dec, length)

RECURSIVE SkipLoop(_, _, _)
SkipLoop(dec, junkSize, remaining) ==
  IF remaining <= 0 THEN dec
  ELSE Let(Read(dec, Min(junkSize, remaining)), LAMBDA r :
         IF r.err # "nil" THEN SetError(r.d, r.err)
         ELSE IF r.n = 0 THEN [r.d EXCEPT !.crashed = TRUE]   \* doassert(n > 0)
         ELSE SkipLoop(r.d, junkSize, remaining - r.n))

Skip(dec, length) ==
  IF DecLen(dec) < length THEN SetError(dec, "Skip")
  ELSE SkipLoop(dec, Min(65536, length), length)

\* ------------------------------------------------------------------ Encoder

NewEncoder(bo, implicit) ==
  [buf |-> <<>>, err |-> "nil", bo |-> bo, implicit |-> implicit,
   oldTransferSyntaxes |-> <<>>, crashed |-> FALSE]

\* Encoder.Finish: [bytes, err]; it asserts an empty transfer syntax stack.
EncoderFinish(e) ==
  [bytes |-> e.buf, err |-> e.err,
   crashed |-> e.crashed \/ e.oldTransferSyntaxes # <<>>]

EncodeByte(e, v) == [e EXCEPT !.buf = @ \o <<v % 256>>]

EncodeUInt16(e, v) == [e EXCEPT !.buf = @ \o PutUint16(e.bo, v)]

EncodeUInt32(e, v) == [e EXCEPT !.buf = @ \o PutUint32(e.bo, v)]

EncodeInt16(e, v) == [e EXCEPT !.buf = @ \o PutUint16(e.bo, v)]

EncodeInt32(e, v) == [e EXCEPT !.buf = @ \o PutUint32(e.bo, v)]

\* A float32 is held as its IEEE-754 bit pattern, a float64 as the eight bytes
\* of its bit pattern, most significant first.
EncodeFloat32(e, v) == [e EXCEPT !.buf = @ \o PutUint32(e.bo, v)]

Reverse(s) == [i \in 1..Len(s) |-> s[Len(s) + 1 - i]]

EncodeFloat64(e, v) ==
  [e EXCEPT !.buf = @ \o (IF e.bo = BigEndian THEN v ELSE Reverse(v))]

EncodeString(e, v) == [e EXCEPT !.buf = @ \o v]

EncodeZeros(e, len) == [e EXCEPT !.buf = @ \o Zeros(len)]

EncodeBytes(e, v) == [e EXCEPT !.buf = @ \o v]

\* A panic anywhere ends the process: the flag is carried to the caller's encoder.
Panic(x) == [x EXCEPT !.crashed = TRUE]

\* ------------------------------------------------------------------ Tags and values

Tag(group, element) == [Group |-> group, Element |-> element]

TagItem == Tag(65534, 57344)
TagItemDelimitationItem == Tag(65534, 57357)
TagSequenceDelimitationItem == Tag(65534, 57565)
TagPixelData == Tag(32736, 16)
TagFileMetaInformationGroupLength == Tag(2, 0)
TagFileMetaInformationVersion == Tag(2, 1)
TagMediaStorageSOPClassUID == Tag(2, 2)
TagMediaStorageSOPInstanceUID == Tag(2, 3)
TagTransferSyntaxUID == Tag(2, 16)
TagImplementationClassUID == Tag(2, 18)
TagImplementationVersionName == Tag(2, 19)
TagPatientName == Tag(16, 16)
TagStudyDate == Tag(8, 32)
TagReferencedImageSequence == Tag(8, 4416)
TagAdditionalPatientHistory == Tag(16, 8624)
TagFrameIncrementPointer == Tag(40, 9)
TagEventTypeID == Tag(0, 4098)
TagRows == Tag(40, 16)
TagRedPaletteColorLookupTableData == Tag(40, 4609)
TagEncapsulatedDocument == Tag(66, 17)
TagReferencePixelX0 == Tag(24, 24608)
TagCodeString == Tag(24, 38741)
TagUInt32List == Tag(32, 36951)
TagPrivate == Tag(9, 16)
TagSpecificCharacterSet == Tag(8, 5)
TagQueryRetrieveLevel == Tag(8, 82)
TagStudyInstanceUID == Tag(32, 13)

\* The part of the standard dictionary the model uses: <<tag, VR>>.
tagDict ==
  { <<TagItem, "NA">>, <<TagItemDelimitationItem, "NA">>,
    <<TagSequenceDelimitationItem, "NA">>, <<TagPixelData, "OW">>,
    <<TagFileMetaInformationGroupLength, "UL">>, <<TagFileMetaInformationVersion, "OB">>,
    <<TagMediaStorageSOPClassUID, "UI">>, <<TagMediaStorageSOPInstanceUID, "UI">>,
    <<TagTransferSyntaxUID, "UI">>, <<TagImplementationClassUID, "UI">>,
    <<TagImplementationVersionName, "SH">>, <<TagPatientName, "PN">>,
    <<TagStudyDate, "DA">>, <<TagReferencedImageSequence, "SQ">>,
    <<TagAdditionalPatientHistory, "LT">>, <<TagFrameIncrementPointer, "AT">>,
    <<TagRows, "US">>, <<TagRedPaletteColorLookupTableData, "OW">>,
    <<TagEncapsulatedDocument, "OB">>, <<TagCodeString, "CS">>,
    <<TagReferencePixelX0, "SL">>,
    <<TagUInt32List, "UL">>, <<TagSpecificCharacterSet, "CS">>,
    <<TagQueryRetrieveLevel, "CS">>, <<TagStudyInstanceUID, "UI">>,
    <<TagEventTypeID, "US">> }

\* FindTag: [ok, VR]; ok = FALSE is the "could not find tag" error.
FindTag(tag) ==
  IF \E ent \in tagDict : ent[1] = tag
  THEN [ok |-> TRUE, VR |-> (CHOOSE ent \in tagDict : ent[1] = tag)[2]]
  ELSE IF tag.Group % 2 = 0 /\ tag.Element = 0
       THEN [ok |-> TRUE, VR |-> "UL"]
       ELSE [ok |-> FALSE, VR |-> ""]

GetVRKind(tag, vr) ==
  IF tag = TagItem THEN "VRItem"
  ELSE IF tag = TagPixelData THEN "VRPixelData"
  ELSE CASE vr = "DA" -> "VRDate"
         [] vr = "AT" -> "VRTagList"
         [] vr \in {"OW", "OB"} -> "VRBytes"
         [] vr \in {"LT", "UT"} -> "VRString"
         [] vr = "UL" -> "VRUInt32List"
         [] vr = "SL" -> "VRInt32List"
         [] vr = "US" -> "VRUInt16List"
         [] vr = "SS" -> "VRInt16List"
         [] vr = "FL" -> "VRFloat32List"
         [] vr = "FD" -> "VRFloat64List"
         [] vr = "SQ" -> "VRSequence"
         [] OTHER -> "VRStringList"

\* GetVRKind of one argument, as NewElement calls it (dicom.go 811): the kind
\* by the VR alone, with the kinds of tag.go 47-71. NA, the VR of the Item
\* group, is the one VR that gives VRItem; no VR gives VRPixelData.
GetVRKindByVR(vr) ==
  CASE vr = "AT" -> "VRTag"
    [] vr \in {"OW", "OB"} -> "VRBytes"
    [] vr = "UL" -> "VRUInt32"
    [] vr = "SL" -> "VRInt32"
    [] vr = "US" -> "VRUInt16"
    [] vr = "SS" -> "VRInt16"
    [] vr = "FL" -> "VRFloat32"
    [] vr = "FD" -> "VRFloat64"
    [] vr = "SQ" -> "VRSequence"
    [] vr = "NA" -> "VRItem"
    [] OTHER -> "VRString"

\* The VRs of the standard and their two characters as bytes.
vrBytes ==
  { <<"NA", <<78, 65>>>>, <<"OB", <<79, 66>>>>, <<"OW", <<79, 87>>>>,
    <<"SQ", <<83, 81>>>>, <<"UN", <<85, 78>>>>, <<"UT", <<85, 84>>>>,
    <<"LT", <<76, 84>>>>, <<"UL", <<85, 76>>>>, <<"US", <<85, 83>>>>,
    <<"SL", <<83, 76>>>>, <<"SS", <<83, 83>>>>, <<"FL", <<70, 76>>>>,
    <<"FD", <<70, 68>>>>, <<"AT", <<65, 84>>>>, <<"DA", <<68, 65>>>>,
    <<"UI", <<85, 73>>>>, <<"SH", <<83, 72>>>>, <<"PN", <<80, 78>>>>,
    <<"CS", <<67, 83>>>>, <<"LO", <<76, 79>>>>, <<"OD", <<79, 68>>>>,
    <<"OF", <<79, 70>>>>, <<"OL", <<79, 76>>>>, <<"UC", <<85, 67>>>>,
    <<"UR", <<85, 82>>>>, <<"AE", <<65, 69>>>>, <<"AS", <<65, 83>>>>,
    <<"DS", <<68, 83>>>>, <<"DT", <<68, 84>>>>, <<"IS", <<73, 83>>>>,
    <<"ST", <<83, 84>>>>, <<"TM", <<84, 77>>>> }

\* Every string of two bytes.
BytePairs == (0..255) \X (0..255)

\* The printable characters of ASCII, in the order of their codes from 32 on; the double
\* quote, the backslash and the backquote have no entry.
PrintableChars ==
  <<
     " ", "!", "", "#", "$", "%", "&", "'", "(", ")", "*", "+", ",", "-", ".", "/",
     "0", "1", "2", "3", "4", "5", "6", "7", "8", "9", ":", ";", "<", "=", ">", "?",
     "@", "A", "B", "C", "D", "E", "F", "G", "H", "I", "J", "K", "L", "M", "N", "O",
     "P", "Q", "R", "S", "T", "U", "V", "W", "X", "Y", "Z", "[", "", "]", "^", "_",
     "", "a", "b", "c", "d", "e", "f", "g", "h", "i", "j", "k", "l", "m", "n", "o",
     "p", "q", "r", "s", "t", "u", "v", "w", "x", "y", "z", "{", "|", "}", "~" >>

\* The codes of the printable characters.
Printable ==
  { c \in 32..(Len(PrintableChars) + 31) : PrintableChars[c - 31] # "" }

\* The string of two printable bytes.
StringOfPair(b) ==
  PrintableChars[b[1] - 31] \o PrintableChars[b[2] - 31]

\* The bytes of a VR string, written as they are. The standard VRs are looked
\* up first; any other string of two printable characters gives its two
\* bytes, and two bytes outside the table are the string "<<b1, b2>>".
VRToBytes(vr) ==
  IF \E p \in vrBytes : p[1] = vr THEN (CHOOSE p \in vrBytes : p[1] = vr)[2]
  ELSE IF vr = "" THEN <<>>
  ELSE IF \E b \in Printable \X Printable : StringOfPair(b) = vr
  THEN CHOOSE b \in Printable \X Printable : StringOfPair(b) = vr
  ELSE IF \E b \in BytePairs : ToString(b) = vr
  THEN CHOOSE b \in BytePairs : ToString(b) = vr
  ELSE <<>>

\* The VR string of the bytes read: whatever they are, they are the VR.
VRFromBytes(b) ==
  IF b = <<>> THEN ""
  ELSE IF \E p \in vrBytes : p[2] = b THEN (CHOOSE p \in vrBytes : p[2] = b)[1]
  ELSE IF b[1] \in Printable /\ b[2] \in Printable THEN StringOfPair(b)
  ELSE ToString(b)

LongVRs == {"NA", "OB", "OD", "OF", "OL", "OW", "SQ", "UN", "UC", "UR", "UT"}

itemSeqGroup == 65534

undefinedLength == -1

\* Element and the Go values an Element.Value slot can hold, tagged by type.
Element(tag, vr, undef, value) ==
  [Tag |-> tag, VR |-> vr, UndefinedLength |-> undef, Value |-> value]

NilElement == [nil |-> TRUE]

VString(s) == [t |-> "string", v |-> s]
VBytes(b) == [t |-> "bytes", v |-> b]
VUInt16(n) == [t |-> "uint16", v |-> n]
VUInt32(n) == [t |-> "uint32", v |-> n]
VInt16(n) == [t |-> "int16", v |-> n]
VInt32(n) == [t |-> "int32", v |-> n]
VFloat32(n) == [t |-> "float32", v |-> n]
VFloat64(b) == [t |-> "float64", v |-> b]
VTag(tag) == [t |-> "Tag", v |-> tag]
VElement(elem) == [t |-> "Element", v |-> elem]
PixelDataInfo(offsets, frames) ==
  [t |-> "PixelDataInfo", v |-> [Offsets |-> offsets, Frames |-> frames]]

\* ------------------------------------------------------------------ Element writer

\* A header writer that frames group FFFE as the transfer syntax says.
encodeElementHeaderByTransferSyntax(e, tag, vr, vl) ==
  Let(EncodeUInt16(EncodeUInt16(IF vl = undefinedLength \/ vl % 2 = 0 THEN e ELSE Panic(e),
                                tag.Group), tag.Element),
      LAMBDA e1 :
        IF e.implicit = ExplicitVR
        THEN IF vr \in LongVRs
             THEN EncodeUInt32(EncodeZeros(EncodeString(e1, VRToBytes(vr)), 2), vl)
             ELSE EncodeUInt16(EncodeString(e1, VRToBytes(vr)), vl % 65536)
        ELSE EncodeUInt32(e1, vl))

encodeElementHeader(e, tag, vr, vl) ==
  Let(EncodeUInt16(EncodeUInt16(IF vl = undefinedLength \/ vl % 2 = 0 THEN e ELSE Panic(e),
                                tag.Group), tag.Element),
      LAMBDA e1 :
        IF (IF tag.Group = itemSeqGroup THEN ImplicitVR ELSE e.implicit) = ExplicitVR
        THEN IF vr \in LongVRs
             THEN EncodeUInt32(EncodeZeros(
                    EncodeString(IF Len(VRToBytes(vr)) = 2 THEN e1 ELSE Panic(e1),
                                 VRToBytes(vr)), 2), vl)
             ELSE EncodeUInt16(
                    EncodeString(IF Len(VRToBytes(vr)) = 2 THEN e1 ELSE Panic(e1),
                                 VRToBytes(vr)), vl % 65536)
        ELSE EncodeUInt32(IF e.implicit # UnknownVR \/ tag.Group = itemSeqGroup
                          THEN e1 ELSE Panic(e1), vl))

writeRawItem(e, data) == EncodeBytes(encodeElementHeader(e, TagItem, "NA", Len(data)), data)

RECURSIVE EncodeUInt32s(_, _)
EncodeUInt32s(e, offsets) ==
  IF offsets = <<>> THEN e
  ELSE EncodeUInt32s(EncodeUInt32(e, Head(offsets)), Tail(offsets))

\* part_004: the offsets go to the sub-encoder, whose bytes are the Item's payload.
writeBasicOffsetTable(e, offsets) ==
  writeRawItem(e, EncodeUInt32s(NewEncoder(e.bo, ImplicitVR), offsets).buf)

\* writer.go: the offsets go to e itself and the Item is written with the
\* sub-encoder's bytes, of which there are none.
writeBasicOffsetTableOld(e, offsets) ==
  writeRawItem(EncodeUInt32s(e, offsets), EncoderFinish(NewEncoder(e.bo, ImplicitVR)).bytes)

RECURSIVE writeRawItems(_, _)
writeRawItems(e, frames) ==
  IF frames = <<>> THEN e
  ELSE writeRawItems(writeRawItem(e, Head(frames)), Tail(frames))

\* The PixelData branch once the value is known: image is the PixelDataInfo,
\* or the zero PixelDataInfo when the value has another type.
WriteImage(w, e, elem, vr, image) ==
  IF elem.UndefinedLength
  THEN encodeElementHeader(
         writeRawItems(
           IF w = "WriteElement"
           THEN writeBasicOffsetTable(
                  encodeElementHeader(e, elem.Tag, vr, undefinedLength), image.Offsets)
           ELSE writeBasicOffsetTableOld(
                  encodeElementHeader(e, elem.Tag, vr, undefinedLength), image.Offsets),
           image.Frames),
         IF w = "WriteElement" THEN TagSequenceDelimitationItem ELSE TagItemDelimitationItem,
         "", 0)
  ELSE IF Len(image.Frames) # 1 THEN Panic(e)
  ELSE EncodeBytes(encodeElementHeader(e, elem.Tag, vr, Len(image.Frames[1])),
                   image.Frames[1])

\* The PixelData branch of both writers; w names the writer.
WritePixelData(w, e, elem, vr) ==
  IF elem.Value = <<>> THEN Panic(SetError(e, "PixelData one value"))
  ELSE WriteImage(w,
         IF Len(elem.Value) # 1 \/ elem.Value[1].t # "PixelDataInfo"
         THEN SetError(e, "PixelData one value") ELSE e,
         elem, vr,
         IF elem.Value[1].t = "PixelDataInfo" THEN elem.Value[1].v
         ELSE [Offsets |-> <<>>, Frames |-> <<>>])

RECURSIVE JoinStrings(_, _, _, _)
\* part_004 770-781: the values joined with a backslash; a value that is not a
\* string records an error on e and is left out.
JoinStrings(e, values, i, s) ==
  IF i > Len(values) THEN [e |-> e, s |-> s]
  ELSE IF values[i].t # "string"
       THEN JoinStrings(SetError(e, "Non-string value found"), values, i + 1, s)
       ELSE JoinStrings(e, values, i + 1,
                        (IF i > 1 THEN s \o <<92>> ELSE s) \o values[i].v)

RECURSIVE SwapUInt16s(_, _, _)
\* Reads len/2 uint16 values from bytes in one byte order and writes them in the other.
SwapUInt16s(from, to, bytes) ==
  IF Len(bytes) < 2 THEN <<>>
  ELSE PutUint16(to, Uint16(from, SubSeq(bytes, 1, 2))) \o SwapUInt16s(from, to, Drop(bytes, 2))

NativeByteOrder == LittleEndian

\* The Go type of the values of a VR.
ValueType(vr) ==
  CASE vr = "US" -> "uint16" [] vr = "UL" -> "uint32"
    [] vr = "SL" -> "int32" [] vr = "SS" -> "int16"
    [] vr = "FL" -> "float32" [] vr = "FD" -> "float64"
    [] vr \in {"OW", "OB"} -> "bytes" [] OTHER -> "string"

\* sube.WriteUInt16(v), WriteUInt32(v), ... by the VR.
EncodeNumber(vr, sube, v) ==
  CASE vr = "US" -> EncodeUInt16(sube, v)
    [] vr = "UL" -> EncodeUInt32(sube, v)
    [] vr = "SL" -> EncodeInt32(sube, v)
    [] vr = "SS" -> EncodeInt16(sube, v)
    [] vr = "FL" -> EncodeFloat32(sube, v)
    [] OTHER -> EncodeFloat64(sube, v)

\* WriteBytes(b) or WriteString(s), then a zero byte when the length is odd.
EncodePadded(sube, b) ==
  IF Len(b) % 2 = 1 THEN EncodeByte(EncodeBytes(sube, b), 0) ELSE EncodeBytes(sube, b)

RECURSIVE WriteValues(_, _, _, _, _)
\* part_004 675-735: the typed list VRs; [e, sube].
WriteValues(vr, e, sube, values, i) ==
  IF i > Len(values) THEN [e |-> e, sube |-> sube]
  ELSE IF values[i].t # ValueType(vr)
       THEN WriteValues(vr, SetError(e, "wrong value type"), sube, values, i + 1)
       ELSE WriteValues(vr, e, EncodeNumber(vr, sube, values[i].v), values, i + 1)

RECURSIVE EncodeValues(_, _, _, _)
\* writer.go 201-234: one switch per value, with unchecked type assertions.
EncodeValues(vr, sube, values, i) ==
  IF i > Len(values) THEN sube
  ELSE IF values[i].t # ValueType(vr) THEN Panic(sube)
  ELSE EncodeValues(vr,
         IF vr \in {"US", "UL", "SL", "SS", "FL", "FD"}
         THEN EncodeNumber(vr, sube, values[i].v)
         ELSE EncodePadded(sube, values[i].v),
         values, i + 1)

RECURSIVE WriteAny(_, _, _)
RECURSIVE WriteChildren(_, _, _, _, _)

\* The loops over the children of an SQ or an Item: [e, ok]; ok = FALSE at the
\* first value that is not an element (for an SQ: not an Item), where the
\* caller records the error and returns. A nil *Element is dereferenced.
WriteChildren(w, e, values, i, sq) ==
  IF i > Len(values) THEN [e |-> e, ok |-> TRUE]
  ELSE IF values[i].t # "Element" THEN [e |-> e, ok |-> FALSE]
  ELSE IF values[i].v = NilElement THEN [e |-> Panic(e), ok |-> FALSE]
  ELSE IF sq /\ values[i].v.Tag # TagItem THEN [e |-> e, ok |-> FALSE]
  ELSE WriteChildren(w, WriteAny(w, e, values[i].v), values, i + 1, sq)

ChildError(sq) ==
  IF sq THEN "SQ element must be an Item" ELSE "Item values must be a dicom.Element"

\* The SQ and Item branches, the same in both writers.
WriteContainer(w, e, elem, vr, sq) ==
  IF elem.UndefinedLength
  THEN Let(WriteChildren(w, encodeElementHeader(e, elem.Tag, vr, undefinedLength),
                         elem.Value, 1, sq),
           LAMBDA r :
             IF ~r.ok THEN SetError(r.e, ChildError(sq))
             ELSE encodeElementHeader(r.e,
                    IF sq THEN TagSequenceDelimitationItem ELSE TagItemDelimitationItem,
                    "", 0))
  ELSE Let(WriteChildren(w, NewEncoder(e.bo, e.implicit), elem.Value, 1, sq),
           LAMBDA r :
             IF r.e.crashed THEN Panic(e)
             ELSE IF ~r.ok THEN SetError(e, ChildError(sq))
             ELSE IF r.e.err # "nil" THEN SetError(e, r.e.err)
             ELSE EncodeBytes(encodeElementHeader(e, elem.Tag, vr, Len(r.e.buf)), r.e.buf))

\* The value loop of part_004's scalar branch (675-786): [e, sube].
WriteScalarValues(e, elem, vr, new) ==
  IF vr \in {"US", "UL", "SL", "SS", "FL", "FD"} THEN WriteValues(vr, e, new, elem.Value, 1)
  ELSE IF vr \in {"OW", "OB"}
  THEN IF Len(elem.Value) # 1
       THEN [e |-> SetError(e, "expect a single value"), sube |-> new]
       ELSE IF elem.Value[1].t # "bytes"
       THEN [e |-> SetError(e, "expect a binary string"), sube |-> new]
       ELSE IF vr = "OB" THEN [e |-> e, sube |-> EncodePadded(new, elem.Value[1].v)]
       ELSE IF Len(elem.Value[1].v) % 2 # 0
       THEN [e |-> SetError(e, "expect even length"), sube |-> new]
       ELSE [e |-> e,
             sube |-> EncodeBytes(new, SwapUInt16s(NativeByteOrder, e.bo, elem.Value[1].v))]
  ELSE Let(JoinStrings(e, elem.Value, 1, <<>>),
           LAMBDA j : [e |-> j.e, sube |-> EncodePadded(new, j.s)])

\* The scalar branch of part_004's WriteElement (670-794).
WriteScalar(e, elem, vr) ==
  IF elem.UndefinedLength THEN SetError(e, "undefined-length element not supported")
  ELSE Let(WriteScalarValues(e, elem, vr, NewEncoder(e.bo, e.implicit)),
           LAMBDA r :
             IF r.sube.err # "nil" THEN SetError(r.e, r.sube.err)
             ELSE EncodeBytes(encodeElementHeader(r.e, elem.Tag, vr, Len(r.sube.buf)),
                              r.sube.buf))

\* The scalar branch of writer.go's EncodeDataElement (195-242).
EncodeScalar(e, elem, vr) ==
  IF elem.UndefinedLength THEN SetError(e, "undefined-length element not supported")
  ELSE Let(EncoderFinish(EncodeValues(vr, NewEncoder(e.bo, e.implicit), elem.Value, 1)),
           LAMBDA r :
             IF r.crashed THEN Panic(e)
             ELSE IF r.err # "nil" THEN SetError(e, r.err)
             ELSE EncodeBytes(encodeElementHeader(e, elem.Tag, vr, Len(r.bytes)), r.bytes))

\* The VR to write with: the element's, else the dictionary's, else "UN"
\* (part_004 565-573, writer.go 96-103).
EffectiveVR(elem) ==
  IF elem.VR # "" THEN elem.VR
  ELSE IF FindTag(elem.Tag).ok THEN FindTag(elem.Tag).VR ELSE "UN"

\* part_004 574-580: an error only when the kinds differ; writer.go 105-109:
\* an error whenever the VRs differ.
VRMismatch(w, elem) ==
  /\ elem.VR # "" /\ FindTag(elem.Tag).ok /\ FindTag(elem.Tag).VR # elem.VR
  /\ \/ w = "EncodeDataElement"
     \/ GetVRKind(elem.Tag, FindTag(elem.Tag).VR) # GetVRKind(elem.Tag, elem.VR)

\* WriteElement (part_004) and EncodeDataElement (writer.go); w names the one
\* that runs, and the recursion stays within it.
WriteAny(w, e, elem) ==
  IF elem = NilElement THEN Panic(e)
  ELSE IF VRMismatch(w, elem) THEN SetError(e, "VR value mismatch")
  ELSE IF elem.Tag = TagPixelData THEN WritePixelData(w, e, elem, EffectiveVR(elem))
  ELSE IF EffectiveVR(elem) = "SQ" THEN WriteContainer(w, e, elem, "SQ", TRUE)
  ELSE IF EffectiveVR(elem) = "NA" THEN WriteContainer(w, e, elem, "NA", FALSE)
  ELSE IF w = "WriteElement" THEN WriteScalar(e, elem, EffectiveVR(elem))
  ELSE EncodeScalar(e, elem, EffectiveVR(elem))

\* A writer that writes the header of an element and none of its values.
WriteElementSkipsValues(e, elem) ==
  WriteAny("WriteElement", e, [elem EXCEPT !.Value = <<>>])

WriteElement(e, elem) == WriteAny("WriteElement", e, elem)

EncodeDataElementSkipsValues(e, elem) ==
  WriteAny("EncodeDataElement", e, [elem EXCEPT !.Value = <<>>])

EncodeDataElement(e, elem) == WriteAny("EncodeDataElement", e, elem)

\* ------------------------------------------------------------------ Element reader

\* int64(vl) and int(vl) of a uint32 vl: a value from 2^31 up is longer than
\* any buffer of the model, and Huge stands for it.
Huge == 1073741824

Int64(vl) == IF vl < 0 THEN Huge ELSE vl

DecodeInt16(dec) ==
  Let(DecodeUInt16(dec), LAMBDA r :
    [d |-> r.d, v |-> IF r.v >= 32768 THEN r.v - 65536 ELSE r.v])

DecodeInt32(dec) == DecodeUInt32(dec)

DecodeFloat32(dec) == DecodeUInt32(dec)

DecodeFloat64(dec) ==
  Let(ReadFull(dec, 8, <<>>), LAMBDA r :
    IF r.err # "nil" THEN [d |-> SetError(r.d, r.err), v |-> Zeros(8)]
    ELSE [d |-> r.d, v |-> IF dec.bo = BigEndian THEN r.data ELSE Reverse(r.data)])

readTag(buffer) ==
  Let(DecodeUInt16(buffer), LAMBDA group :
    Let(DecodeUInt16(group.d), LAMBDA element :
      [d |-> element.d, tag |-> Tag(group.v, element.v)]))

\* A check that lets every length pass.
CheckOddLengthNever(buffer, vr, vl) == [d |-> buffer, vr |-> vr, vl |-> vl]

\* The check both header readers end with.
CheckOddLength(buffer, vr, vl) ==
  [d |-> IF vl # undefinedLength /\ vl % 2 # 0
         THEN SetError(buffer, "Encountered odd length") ELSE buffer,
   vr |-> vr, vl |-> vl]

readImplicit(buffer, tag) ==
  Let(DecodeUInt32(buffer), LAMBDA r :
    CheckOddLength(r.d, IF FindTag(tag).ok THEN FindTag(tag).VR ELSE "UN", r.v))

\* dicom.go 1356-1375: the length field after the VR has been read.
readExplicitLength(buffer, vr) ==
  IF vr \in LongVRs
  THEN Let(DecodeUInt32(Skip(buffer, 2)), LAMBDA l :
         CheckOddLength(
           IF l.v = undefinedLength /\ vr \in {"UC", "UR", "UT"}
           THEN SetError(l.d, "UC, UR and UT may not have an Undefined Length") ELSE l.d,
           vr, l.v))
  ELSE Let(DecodeUInt16(buffer), LAMBDA l :
         CheckOddLength(l.d, vr, IF l.v = 65535 THEN undefinedLength ELSE l.v))

readExplicit(buffer, tag) ==
  Let(DecodeString(buffer, 2), LAMBDA s : readExplicitLength(s.d, VRFromBytes(s.v)))

\* dicom.go 993-1014, after the tag and the implicit header h have been read.
readRawItemBody(tag, h) ==
  IF h.d.err # "nil" THEN [d |-> h.d, data |-> <<>>, endOfItems |-> TRUE]
  ELSE IF tag = TagSequenceDelimitationItem
  THEN [d |-> IF h.vl # 0 THEN SetError(h.d, "SequenceDelimitationItem's VL != 0") ELSE h.d,
        data |-> <<>>, endOfItems |-> TRUE]
  ELSE IF tag # TagItem
  THEN [d |-> SetError(h.d, "Expect Item in pixeldata"), data |-> <<>>, endOfItems |-> FALSE]
  ELSE IF h.vl = undefinedLength
  THEN [d |-> SetError(h.d, "Expect defined-length item in pixeldata"),
        data |-> <<>>, endOfItems |-> FALSE]
  ELSE IF h.vr # "NA"
  THEN [d |-> SetError(h.d, "Expect NA item"), data |-> <<>>, endOfItems |-> TRUE]
  ELSE Let(DecodeBytes(h.d, Int64(h.vl)), LAMBDA b :
         [d |-> b.d, data |-> b.v, endOfItems |-> FALSE])

\* readRawItem: [d, data, endOfItems].
readRawItem(dec) ==
  Let(readTag(dec), LAMBDA t :
    Let(readImplicit(t.d, t.tag), LAMBDA h : readRawItemBody(t.tag, h)))

RECURSIVE DecodeUInt32s(_, _)
\* The loop "for d.Len() > 0 && d.Error() == nil { append(d.ReadUInt32()) }": [d, v].
DecodeUInt32s(dec, acc) ==
  IF DecLen(dec) > 0 /\ dec.err = "nil"
  THEN Let(DecodeUInt32(dec), LAMBDA r : DecodeUInt32s(r.d, Append(acc, r.v)))
  ELSE [d |-> dec, v |-> acc]

readBasicOffsetTable(dec) ==
  Let(readRawItem(dec), LAMBDA r :
    [d |-> IF r.endOfItems THEN SetError(r.d, "basic offset table not found") ELSE r.d,
     offsets |-> IF Len(r.data) = 0 THEN <<0>>
                 ELSE DecodeUInt32s(NewBytesDecoder(r.data, r.d.bo, ImplicitVR), <<>>).v])

RECURSIVE readRawItems(_, _)
\* dicom.go 1147-1156: [d, frames].
readRawItems(dec, frames) ==
  IF DecLen(dec) > 0
  THEN Let(readRawItem(dec), LAMBDA r :
         IF r.d.err # "nil" \/ r.endOfItems THEN [d |-> r.d, frames |-> frames]
         ELSE readRawItems(r.d, Append(frames, r.data)))
  ELSE [d |-> dec, frames |-> frames]

RECURSIVE TrimLeft(_)
TrimLeft(s) == IF s # <<>> /\ Head(s) \in {32, 0} THEN TrimLeft(Tail(s)) ELSE s

RECURSIVE TrimRight(_)
TrimRight(s) ==
  IF s # <<>> /\ s[Len(s)] \in {32, 0} THEN TrimRight(SubSeq(s, 1, Len(s) - 1)) ELSE s

\* A Trim that removes nothing.
TrimNothing(v) == v

\* strings.Trim(v, " \000")
Trim(v) == TrimRight(TrimLeft(v))

RECURSIVE Split(_, _)
\* strings.Split(str, "\\") with cur the piece being collected.
Split(str, cur) ==
  IF str = <<>> THEN <<cur>>
  ELSE IF Head(str) = 92 THEN <<cur>> \o Split(Tail(str), <<>>)
  ELSE Split(Tail(str), Append(cur, Head(str)))

Contains(s, c) == \E i \in 1..Len(s) : s[i] = c

RECURSIVE ReadDates(_, _)
\* dicom.go 1240-1246
ReadDates(dec, data) ==
  IF DecLen(dec) > 0 /\ dec.err = "nil"
  THEN Let(DecodeString(dec, 8), LAMBDA date :
         IF Contains(date.v, 46)
         THEN Let(DecodeString(date.d, 2), LAMBDA more :
                ReadDates(more.d, Append(data, VString(date.v \o more.v))))
         ELSE ReadDates(date.d, Append(data, VString(date.v))))
  ELSE [d |-> dec, data |-> data]

RECURSIVE ReadTags(_, _)
\* dicom.go 1249-1252
ReadTags(dec, data) ==
  IF DecLen(dec) > 0 /\ dec.err = "nil"
  THEN Let(readTag(dec), LAMBDA t : ReadTags(t.d, Append(data, VTag(t.tag))))
  ELSE [d |-> dec, data |-> data]

RECURSIVE ReadUInt16sSameOrder(_, _, _)
\* A word reader that writes the words in the byte order it read them in.
ReadUInt16sSameOrder(dec, n, bytes) ==
  IF n <= 0 THEN [d |-> dec, bytes |-> bytes]
  ELSE Let(DecodeUInt16(dec), LAMBDA r :
         ReadUInt16sSameOrder(r.d, n - 1, bytes \o PutUint16(dec.bo, r.v)))

RECURSIVE ReadUInt16s(_, _, _)
\* dicom.go 1259-1262: n values read in the decoder's byte order and written
\* in the native one; [d, bytes].
ReadUInt16s(dec, n, bytes) ==
  IF n <= 0 THEN [d |-> dec, bytes |-> bytes]
  ELSE Let(DecodeUInt16(dec), LAMBDA r :
         ReadUInt16s(r.d, n - 1, bytes \o PutUint16(NativeByteOrder, r.v)))

\* n zero bytes, for an n from 2^30 up: too many to write out, they are held
\* by their number (n the uint32 it is read as).
ManyZeros(n) == [zeros |-> n]

\* dicom.go 1253-1266 for a length of 2^30 or more, which PushLimit has
\* refused: the loop still runs vl / 2 times, every read fails and gives 0,
\* and WriteUInt16 makes the encoder grow to vl zero bytes, which are the
\* value; a process with bounded memory does not survive it.
ReadUInt16sBeyondEnd(dec, vl) ==
  [d |-> IF dec.mem > 0 /\ Int64(vl) >= dec.mem THEN Panic(dec) ELSE dec,
   data |-> <<VBytes(ManyZeros(vl))>>]

\* d.ReadUInt32(), ReadInt32(), ... by the VR: [d, v].
DecodeNumber(vr, dec) ==
  CASE vr = "UL" -> DecodeUInt32(dec) [] vr = "SL" -> DecodeInt32(dec)
    [] vr = "US" -> DecodeUInt16(dec) [] vr = "SS" -> DecodeInt16(dec)
    [] vr = "FL" -> DecodeFloat32(dec) [] OTHER -> DecodeFloat64(dec)

\* The Go value a number of the VR is read as.
NumberValue(vr, v) ==
  CASE vr = "UL" -> VUInt32(v) [] vr = "SL" -> VInt32(v)
    [] vr = "US" -> VUInt16(v) [] vr = "SS" -> VInt16(v)
    [] vr = "FL" -> VFloat32(v) [] OTHER -> VFloat64(v)

RECURSIVE ReadNumbers(_, _, _)
\* dicom.go 1275-1298
ReadNumbers(vr, dec, data) ==
  IF DecLen(dec) > 0 /\ dec.err = "nil"
  THEN Let(DecodeNumber(vr, dec), LAMBDA r :
         ReadNumbers(vr, r.d, Append(data, NumberValue(vr, r.v))))
  ELSE [d |-> dec, data |-> data]

\* dicom.go 1303-1308: the trimmed string split at the backslashes; no value
\* at all when nothing is left of it.
SplitValues(str) ==
  IF Len(str) > 0
  THEN Let(Split(str, <<>>), LAMBDA parts : [i \in 1..Len(parts) |-> VString(parts[i])])
  ELSE <<>>

\* A scalar branch that reads every VR as a list of strings.
ReadScalarAllStrings(dec, tag, vr, vl) ==
  Let(DecodeString(dec, Int64(vl)), LAMBDA r : [d |-> r.d, data |-> SplitValues(Trim(r.v))])

\* The scalar branch of ReadElement between PushLimit and PopLimit: [d, data].
ReadScalar(dec, tag, vr, vl) ==
  CASE vr = "DA" -> ReadDates(dec, <<>>)
    [] vr = "AT" -> ReadTags(dec, <<>>)
    [] vr = "OW" ->
         IF vl % 2 # 0 THEN [d |-> SetError(dec, "OW requires even length"), data |-> <<>>]
         ELSE IF Int64(vl) >= Huge
         THEN ReadUInt16sBeyondEnd(dec, vl)
         ELSE Let(ReadUInt16s(dec, Int64(vl) \div 2, <<>>), LAMBDA r :
                [d |-> r.d, data |-> <<VBytes(r.bytes)>>])
    [] vr = "OB" ->
         Let(DecodeBytes(dec, Int64(vl)), LAMBDA r : [d |-> r.d, data |-> <<VBytes(r.v)>>])
    [] vr \in {"LT", "UT"} ->
         Let(DecodeString(dec, Int64(vl)), LAMBDA r : [d |-> r.d, data |-> <<VString(r.v)>>])
    [] vr \in {"UL", "SL", "US", "SS", "FL", "FD"} -> ReadNumbers(vr, dec, <<>>)
    [] OTHER ->
         Let(DecodeString(dec, Int64(vl)), LAMBDA r :
           [d |-> r.d, data |-> SplitValues(Trim(r.v))])

\* An element that is neither an SQ nor an Item holds a list of scalars.
vrIsScalar(tag, vr) == vr # "SQ" /\ tag # TagItem

RECURSIVE ReadElement(_, _)
RECURSIVE ReadChildren(_, _, _, _, _)

\* The four loops over the children of an SQ or an Item (dicom.go 1171-1184,
\* 1191-1201, 1206-1215, 1219-1225): [d, data]. A nil child, which ReadElement
\* returns for a dropped PixelData, is dereferenced by every loop but the
\* defined-length Item's, which appends it.
ReadChildren(dec, options, data, sq, undef) ==
  IF dec.crashed \/ (~undef /\ DecLen(dec) <= 0) THEN [d |-> dec, data |-> data]
  ELSE Let(ReadElement(dec, options), LAMBDA r :
         IF r.d.err # "nil" \/ r.d.crashed THEN [d |-> r.d, data |-> data]
         ELSE IF r.elem = NilElement /\ (sq \/ undef)
         THEN [d |-> Panic(r.d), data |-> data]
         ELSE IF r.elem = NilElement
         THEN ReadChildren(r.d, options, Append(data, VElement(r.elem)), sq, undef)
         ELSE IF sq /\ undef /\ r.elem.Tag = TagSequenceDelimitationItem
         THEN [d |-> r.d, data |-> data]
         ELSE IF sq /\ r.elem.Tag # TagItem
         THEN [d |-> SetError(r.d, "Found non-Item element in seq"), data |-> data]
         ELSE IF ~sq /\ undef /\ r.elem.Tag = TagItemDelimitationItem
         THEN [d |-> r.d, data |-> data]
         ELSE ReadChildren(r.d, options, Append(data, VElement(r.elem)), sq, undef))

\* dicom.go 1102-1113: the VR and the length of the element: [d, vr, vl].
ReadHeader(dec, tag) ==
  IF tag.Group = itemSeqGroup \/ dec.implicit = ImplicitVR THEN readImplicit(dec, tag)
  ELSE IF dec.implicit = ExplicitVR THEN readExplicit(dec, tag)
  ELSE [d |-> Panic(dec), vr |-> "", vl |-> 0]

\* dicom.go 1124-1310: the values of the element: [d, data].
ReadValue(dec, options, tag, vr, vl) ==
  IF tag = TagPixelData
  THEN IF vl = undefinedLength
       THEN Let(readBasicOffsetTable(dec), LAMBDA o :
              Let(readRawItems(o.d, <<>>), LAMBDA f :
                [d |-> f.d, data |-> <<PixelDataInfo(o.offsets, f.frames)>>]))
       ELSE Let(DecodeBytes(dec, Int64(vl)), LAMBDA b :
              [d |-> b.d, data |-> <<PixelDataInfo(<<>>, <<b.v>>)>>])
  ELSE IF vr = "SQ" \/ tag = TagItem
  THEN IF vl = undefinedLength
       THEN ReadChildren(dec, options, <<>>, vr = "SQ", TRUE)
       ELSE Let(ReadChildren(PushLimit(dec, Int64(vl)), options, <<>>, vr = "SQ", FALSE),
                LAMBDA c : [d |-> PopLimit(c.d), data |-> c.data])
  ELSE Let(ReadScalar(PushLimit(dec, Int64(vl)), tag, vr, vl), LAMBDA s :
         [d |-> PopLimit(s.d), data |-> s.data])

\* dicom.go 1114-1313, after the tag and the header h have been read.
ReadElementBody(options, tag, h) ==
  IF h.d.err # "nil" \/ h.d.crashed THEN [d |-> h.d, elem |-> NilElement]
  ELSE IF tag # TagPixelData /\ vrIsScalar(tag, h.vr) /\ h.vl = undefinedLength
  THEN [d |-> SetError(h.d, "Undefined length disallowed"), elem |-> NilElement]
  ELSE Let(ReadValue(h.d, options, tag, h.vr, h.vl), LAMBDA r :
         [d |-> r.d, elem |-> Element(tag, h.vr, h.vl = undefinedLength, r.data)])

\* ReadElement: [d, elem]; elem = NilElement is the nil return.
ReadElement(dec, options) ==
  Let(readTag(dec), LAMBDA t :
    IF t.tag = TagPixelData /\ options.DropPixelData THEN [d |-> t.d, elem |-> NilElement]
    ELSE Let(ReadHeader(t.d, t.tag), LAMBDA h : ReadElementBody(options, t.tag, h)))

\* ------------------------------------------------------------------ Transfer syntaxes and file header

\* "1.2.840.10008.1.2"
ImplicitVRLittleEndian == <<49, 46, 50, 46, 56, 52, 48, 46, 49, 48, 48, 48, 56, 46, 49, 46, 50>>

\* "1.2.840.10008.1.2.1"
ExplicitVRLittleEndian == <<49, 46, 50, 46, 56, 52, 48, 46, 49, 48, 48, 48, 56, 46, 49, 46, 50, 46, 49>>

\* "1.2.840.10008.1.2.2"
ExplicitVRBigEndian == <<49, 46, 50, 46, 56, 52, 48, 46, 49, 48, 48, 48, 56, 46, 49, 46, 50, 46, 50>>

\* "1.2.840.10008.1.2.1.99"
DeflatedExplicitVRLittleEndian == <<49, 46, 50, 46, 56, 52, 48, 46, 49, 48, 48, 48, 56, 46, 49, 46, 50, 46, 49, 46, 57, 57>>

\* "1.2.840.10008.1.2.4.50"
JPEGBaseline == <<49, 46, 50, 46, 56, 52, 48, 46, 49, 48, 48, 48, 56, 46, 49, 46, 50, 46, 52, 46, 53, 48>>

\* "1.2.840.10008.15.0.4.8"
DicomTransferCapability == <<49, 46, 50, 46, 56, 52, 48, 46, 49, 48, 48, 48, 56, 46, 49, 53, 46, 48, 46, 52, 46, 56>>

\* "1.2.840.10008.5.1.4.1.1.1.2"
DigitalMammographyXRayImageStorage == <<49, 46, 50, 46, 56, 52, 48, 46, 49, 48, 48, 48, 56, 46, 53, 46, 49, 46, 52, 46, 49, 46, 49, 46, 49, 46, 50>>

\* "1.2.3.4.5.6.7"
UnregisteredUID == <<49, 46, 50, 46, 51, 46, 52, 46, 53, 46, 54, 46, 55>>

\* "1.2.3.4"
UnregisteredUID2 == <<49, 46, 50, 46, 51, 46, 52>>

\* "1.2.826.0.1.3680043.9.7133.1.1"
GoDICOMImplementationClassUID == <<49, 46, 50, 46, 56, 50, 54, 46, 48, 46, 49, 46, 51, 54, 56, 48, 48, 52, 51, 46, 57, 46, 55, 49, 51, 51, 46, 49, 46, 49>>

\* "GODICOM_1_1"
GoDICOMImplementationVersionName == <<71, 79, 68, 73, 67, 79, 77, 95, 49, 95, 49>>

\* "DICM"
DICM == <<68, 73, 67, 77>>

\* "FooHah"
FooHah == <<70, 111, 111, 72, 97, 104>>

\* "Bar"
Bar == <<66, 97, 114>>

\* "0 1"
Version01 == <<48, 32, 49>>

UIDTypeTransferSyntax == "Transfer Syntax"

\* The part of the UID registry the model uses: <<uid, type>>.
uidDict ==
  { <<ImplicitVRLittleEndian, UIDTypeTransferSyntax>>,
    <<ExplicitVRLittleEndian, UIDTypeTransferSyntax>>,
    <<ExplicitVRBigEndian, UIDTypeTransferSyntax>>,
    <<DeflatedExplicitVRLittleEndian, UIDTypeTransferSyntax>>,
    <<JPEGBaseline, UIDTypeTransferSyntax>>,
    <<DicomTransferCapability, "LDAP OID">>,
    <<DigitalMammographyXRayImageStorage, "SOP Class">> }

\* LookupUID: [ok, Type].
LookupUID(uid) ==
  IF \E ent \in uidDict : ent[1] = uid
  THEN [ok |-> TRUE, Type |-> (CHOOSE ent \in uidDict : ent[1] = uid)[2]]
  ELSE [ok |-> FALSE, Type |-> ""]

CanonicalAcceptsAnyUID(uid) == [uid |-> ExplicitVRLittleEndian, err |-> "nil"]

\* CanonicalTransferSyntaxUID: [uid, err].
CanonicalTransferSyntaxUID(uid) ==
  IF uid \in {ImplicitVRLittleEndian, ExplicitVRLittleEndian, ExplicitVRBigEndian,
              DeflatedExplicitVRLittleEndian}
  THEN [uid |-> uid, err |-> "nil"]
  ELSE Let(LookupUID(uid), LAMBDA e :
         IF ~e.ok THEN [uid |-> <<>>, err |-> "unknown UID"]
         ELSE IF e.Type # UIDTypeTransferSyntax
         THEN [uid |-> <<>>, err |-> "not a transfer syntax"]
         ELSE [uid |-> ExplicitVRLittleEndian, err |-> "nil"])

\* ParseTransferSyntaxUID: [bo, implicit, err, crashed].
ParseTransferSyntaxUID(uid) ==
  Let(CanonicalTransferSyntaxUID(uid), LAMBDA c :
    IF c.err # "nil"
    THEN [bo |-> "nil", implicit |-> UnknownVR, err |-> c.err, crashed |-> FALSE]
    ELSE IF c.uid = ImplicitVRLittleEndian
    THEN [bo |-> LittleEndian, implicit |-> ImplicitVR, err |-> "nil", crashed |-> FALSE]
    ELSE IF c.uid \in {DeflatedExplicitVRLittleEndian, ExplicitVRLittleEndian}
    THEN [bo |-> LittleEndian, implicit |-> ExplicitVR, err |-> "nil", crashed |-> FALSE]
    ELSE IF c.uid = ExplicitVRBigEndian
    THEN [bo |-> BigEndian, implicit |-> ExplicitVR, err |-> "nil", crashed |-> FALSE]
    ELSE [bo |-> BigEndian, implicit |-> ExplicitVR, err |-> "nil", crashed |-> TRUE])

TagMetadataGroup == 2

\* The type switch of NewElement (dicom.go 812-838) on the kind of the tag's
\* VR: [ok, crashed]. In the sequence case the assertion declares a second
\* ok, so the one that is tested stays false; before that, the Tag of the
\* asserted *Element is read, which a nil pointer does not survive. A kind
\* the switch does not name leaves ok false too.
ValueTypeOK(kind, v) ==
  IF kind = "VRSequence"
  THEN [ok |-> FALSE, crashed |-> v.t = "Element" /\ v.v = NilElement]
  ELSE [ok |-> CASE kind = "VRString" -> v.t = "string"
                 [] kind = "VRBytes" -> v.t = "bytes"
                 [] kind = "VRUInt16" -> v.t = "uint16"
                 [] kind = "VRUInt32" -> v.t = "uint32"
                 [] kind = "VRInt16" -> v.t = "int16"
                 [] kind = "VRInt32" -> v.t = "int32"
                 [] kind = "VRFloat32" -> v.t = "float32"
                 [] kind = "VRFloat64" -> v.t = "float64"
                 [] kind = "VRTag" -> v.t = "Tag"
                 [] kind = "VRItem" -> v.t = "Element"
                 [] OTHER -> FALSE,
        crashed |-> FALSE]

RECURSIVE CheckValues(_, _, _)
\* The loop of NewElement over the values (dicom.go 812-846): "ok" when every
\* value passes, else what the first value that does not pass brings about,
\* "crashed" or "error".
CheckValues(kind, values, i) ==
  IF i > Len(values) THEN "ok"
  ELSE IF ValueTypeOK(kind, values[i]).crashed THEN "crashed"
  ELSE IF ~ValueTypeOK(kind, values[i]).ok THEN "error"
  ELSE CheckValues(kind, values, i + 1)

\* NewElement: [elem, ok, crashed]; ok = FALSE is the error return, crashed
\* the panic, after which nothing is returned.
NewElement(tag, values) ==
  Let(FindTag(tag), LAMBDA ti :
    IF ~ti.ok THEN [elem |-> NilElement, ok |-> FALSE, crashed |-> FALSE]
    ELSE Let(CheckValues(GetVRKindByVR(ti.VR), values, 1), LAMBDA r :
      IF r = "ok"
      THEN [elem |-> Element(tag, ti.VR, FALSE, values), ok |-> TRUE, crashed |-> FALSE]
      ELSE [elem |-> NilElement, ok |-> FALSE, crashed |-> r = "crashed"]))

\* What a call returns that has ended the process (vlog.Fatalf, a panic):
\* nothing.
ProcessEnded == [fatal |-> TRUE]

\* MustNewElement: the element, or the end of the process when NewElement
\* returns an error or panics.
MustNewElement(tag, values) ==
  Let(NewElement(tag, values), LAMBDA r : IF r.ok THEN r.elem ELSE ProcessEnded)

\* WriteElement(e, MustNewElement(...)): nothing is written once the process
\* has ended.
WriteMustNewElement(e, tag, values) ==
  Let(MustNewElement(tag, values), LAMBDA elem :
    IF elem = ProcessEnded THEN Panic(e) ELSE WriteElement(e, elem))

\* FindElementByTag: [ok, elem], the first element with the tag.
FindElementByTag(elems, tag) ==
  IF \E i \in 1..Len(elems) : elems[i].Tag = tag
  THEN [ok |-> TRUE,
        elem |-> elems[CHOOSE i \in 1..Len(elems) :
                         elems[i].Tag = tag /\ \A j \in 1..(i - 1) : elems[j].Tag # tag]]
  ELSE [ok |-> FALSE, elem |-> NilElement]

\* A variant that passes over a required element that is missing.
writeRequiredMetaElemSkipsMissing(subEncoder, metaElems, tag) ==
  Let(FindElementByTag(metaElems, tag), LAMBDA f :
    IF f.ok THEN WriteElement(subEncoder, f.elem) ELSE subEncoder)

writeRequiredMetaElem(subEncoder, metaElems, tag) ==
  Let(FindElementByTag(metaElems, tag), LAMBDA f :
    IF f.ok THEN WriteElement(subEncoder, f.elem)
    ELSE SetError(subEncoder, "not found in metaelems"))

writeOptionalMetaElem(subEncoder, metaElems, tag, defaultValue) ==
  Let(FindElementByTag(metaElems, tag), LAMBDA f :
    IF f.ok THEN WriteElement(subEncoder, f.elem)
    ELSE WriteMustNewElement(subEncoder, tag, <<defaultValue>>))

RECURSIVE writeOtherMetaElems(_, _, _)
\* part_004 502-508
writeOtherMetaElems(subEncoder, metaElems, tagsUsed) ==
  IF metaElems = <<>> THEN subEncoder
  ELSE writeOtherMetaElems(
         IF Head(metaElems).Tag.Group = TagMetadataGroup /\ Head(metaElems).Tag \notin tagsUsed
         THEN WriteElement(subEncoder, Head(metaElems)) ELSE subEncoder,
         Tail(metaElems), tagsUsed)

PreambleSize == 128

\* part_004 477-508: the sub-encoder once every meta element is written.
MetaEncoder(metaElems) ==
  writeOtherMetaElems(
    writeOptionalMetaElem(
      writeOptionalMetaElem(
        writeRequiredMetaElem(
          writeRequiredMetaElem(
            writeRequiredMetaElem(
              writeOptionalMetaElem(NewEncoder(LittleEndian, ExplicitVR), metaElems,
                                    TagFileMetaInformationVersion, VBytes(Version01)),
              metaElems, TagTransferSyntaxUID),
            metaElems, TagMediaStorageSOPClassUID),
          metaElems, TagMediaStorageSOPInstanceUID),
        metaElems, TagImplementationClassUID, VString(GoDICOMImplementationClassUID)),
      metaElems, TagImplementationVersionName, VString(GoDICOMImplementationVersionName)),
    metaElems,
    {TagFileMetaInformationGroupLength, TagFileMetaInformationVersion,
     TagTransferSyntaxUID, TagMediaStorageSOPClassUID, TagMediaStorageSOPInstanceUID,
     TagImplementationClassUID, TagImplementationVersionName})

\* part_004 514-517: preamble, magic word, group length and the metadata.
WriteHeaderBytes(e, length, metaBytes) ==
  EncodeBytes(
    WriteMustNewElement(EncodeString(EncodeZeros(e, PreambleSize), DICM),
                        TagFileMetaInformationGroupLength, <<VUInt32(length)>>),
    metaBytes)

\* A header whose group length is that of the metadata less its last two bytes.
WriteFileHeaderShortLength(e, metaElems) ==
  Let(MetaEncoder(metaElems), LAMBDA subEncoder :
    PopTransferSyntax(
      WriteHeaderBytes(PushTransferSyntax(e, LittleEndian, ExplicitVR),
                       Len(subEncoder.buf) - 2, subEncoder.buf)))

WriteFileHeader(e, metaElems) ==
  Let(MetaEncoder(metaElems), LAMBDA subEncoder :
    PopTransferSyntax(
      IF subEncoder.crashed THEN Panic(PushTransferSyntax(e, LittleEndian, ExplicitVR))
      ELSE IF subEncoder.err # "nil"
      THEN SetError(PushTransferSyntax(e, LittleEndian, ExplicitVR), subEncoder.err)
      ELSE WriteHeaderBytes(PushTransferSyntax(e, LittleEndian, ExplicitVR),
                            Len(subEncoder.buf), subEncoder.buf)))

\* writer.go 16-24: one element with the tag's dictionary VR and the one value.
encodeSingleValue(encoder, tag, v) ==
  EncodeDataElement(encoder, Element(tag, "", FALSE, <<v>>))

\* writer.go 27-33: the sub-encoder once the six meta elements are written.
MetaEncoderOld(transferSyntaxUID, sopClassUID, sopInstanceUID) ==
  encodeSingleValue(
    encodeSingleValue(
      encodeSingleValue(
        encodeSingleValue(
          encodeSingleValue(
            encodeSingleValue(NewEncoder(LittleEndian, ExplicitVR),
                              TagFileMetaInformationVersion, VBytes(Version01)),
            TagTransferSyntaxUID, VString(transferSyntaxUID)),
          TagMediaStorageSOPClassUID, VString(sopClassUID)),
        TagMediaStorageSOPInstanceUID, VString(sopInstanceUID)),
      TagImplementationClassUID, VString(GoDICOMImplementationClassUID)),
    TagImplementationVersionName, VString(GoDICOMImplementationVersionName))

\* writer.go's WriteFileHeader, which takes the three UIDs.
WriteFileHeaderOld(e, transferSyntaxUID, sopClassUID, sopInstanceUID) ==
  Let(EncoderFinish(MetaEncoderOld(transferSyntaxUID, sopClassUID, sopInstanceUID)),
      LAMBDA r :
        PopTransferSyntax(
          IF r.crashed THEN Panic(PushTransferSyntax(e, LittleEndian, ExplicitVR))
          ELSE IF r.err # "nil"
          THEN SetError(PushTransferSyntax(e, LittleEndian, ExplicitVR), r.err)
          ELSE EncodeBytes(
                 encodeSingleValue(
                   EncodeString(
                     EncodeZeros(PushTransferSyntax(e, LittleEndian, ExplicitVR),
                                 PreambleSize), DICM),
                   TagFileMetaInformationGroupLength, VUInt32(Len(r.bytes))),
                 r.bytes)))

RECURSIVE elementString(_, _)
\* elementString(e, nestLevel), the body of Element.String(): [crashed].  The
\* text goes to a log line or an error message; what the callers depend on is
\* whether the call returns.  It asserts that the nesting is below 10, and
\* under the VR SQ or the tag Item it takes every value for an element
\* (v.(*Element)) and reads the fields of that element.
elementString(e, nestLevel) ==
  IF nestLevel >= 10 \/ e = NilElement THEN [crashed |-> TRUE]
  ELSE IF e.VR = "SQ" \/ e.Tag = TagItem
  THEN [crashed |-> \E i \in 1..Len(e.Value) :
                      \/ e.Value[i].t # "Element"
                      \/ elementString(e.Value[i].v, nestLevel + 1).crashed]
  ELSE [crashed |-> FALSE]

\* Element.GetUInt32: [v, ok].  Its errors are built with the element under
\* %v, where fmt recovers a panic of String().
GetUInt32(elem) ==
  IF Len(elem.Value) # 1 \/ elem.Value[1].t # "uint32" THEN [v |-> 0, ok |-> FALSE]
  ELSE [v |-> elem.Value[1].v, ok |-> TRUE]

\* Element.GetString: [v, ok, crashed].  The error for a wrong number of
\* values is built from e.String(), called as an argument.
GetString(elem) ==
  IF Len(elem.Value) # 1
  THEN [v |-> <<>>, ok |-> FALSE, crashed |-> elementString(elem, 0).crashed]
  ELSE IF elem.Value[1].t # "string" THEN [v |-> <<>>, ok |-> FALSE, crashed |-> FALSE]
  ELSE [v |-> elem.Value[1].v, ok |-> TRUE, crashed |-> FALSE]

NoOptions == [DropPixelData |-> FALSE]

RECURSIVE ReadMetaElems(_, _)
\* dicom.go 1081-1088: [d, elems].  Every element appended is formatted with
\* elem.String() for the log line, whatever the verbosity.
ReadMetaElems(dec, metaElems) ==
  IF DecLen(dec) > 0 /\ ~dec.crashed
  THEN Let(ReadElement(dec, NoOptions), LAMBDA r :
         IF r.d.err # "nil" \/ r.d.crashed THEN [d |-> r.d, elems |-> metaElems]
         ELSE IF elementString(r.elem, 0).crashed
         THEN [d |-> Panic(r.d), elems |-> Append(metaElems, r.elem)]
         ELSE ReadMetaElems(r.d, Append(metaElems, r.elem)))
  ELSE [d |-> dec, elems |-> metaElems]

\* dicom.go 1061-1089, with m the return of the first ReadElement.
ParseMetaElems(m) ==
  IF m.d.err # "nil" \/ m.d.crashed THEN [d |-> m.d, elems |-> <<>>]
  ELSE IF ~GetUInt32(m.elem).ok
  THEN [d |-> SetError(IF m.elem.Tag # TagFileMetaInformationGroupLength
                       THEN SetError(m.d, "MetaElementGroupLength not found") ELSE m.d,
                       "Failed to read uint32 in MetaElementGroupLength"),
        elems |-> <<>>]
  ELSE IF DecLen(m.d) <= 0
  THEN [d |-> SetError(IF m.elem.Tag # TagFileMetaInformationGroupLength
                       THEN SetError(m.d, "MetaElementGroupLength not found") ELSE m.d,
                       "No data element found"),
        elems |-> <<>>]
  ELSE Let(ReadMetaElems(
             PushLimit(IF m.elem.Tag # TagFileMetaInformationGroupLength
                       THEN SetError(m.d, "MetaElementGroupLength not found") ELSE m.d,
                       Int64(GetUInt32(m.elem).v)),
             <<m.elem>>),
           LAMBDA r : [d |-> PopLimit(r.d), elems |-> r.elems])

\* A ParseFileHeader that pops the transfer syntax only at its last return.
ParseFileHeaderPopsAtEnd(dec) ==
  Let(DecodeString(Skip(PushTransferSyntax(dec, LittleEndian, ExplicitVR), PreambleSize), 4),
      LAMBDA s :
        IF s.v # DICM
        THEN [d |-> SetError(s.d, "Keyword 'DICM' not found in the header"), elems |-> <<>>]
        ELSE Let(ParseMetaElems(ReadElement(s.d, NoOptions)), LAMBDA r :
               [d |-> PopTransferSyntax(r.d), elems |-> r.elems]))

\* ParseFileHeader: [d, elems]; elems = <<>> is the nil return.
ParseFileHeader(dec) ==
  Let(DecodeString(Skip(PushTransferSyntax(dec, LittleEndian, ExplicitVR), PreambleSize), 4),
      LAMBDA s :
        IF s.v # DICM
        THEN [d |-> PopTransferSyntax(SetError(s.d, "Keyword 'DICM' not found in the header")),
              elems |-> <<>>]
        ELSE Let(ParseMetaElems(ReadElement(s.d, NoOptions)), LAMBDA r :
               [d |-> PopTransferSyntax(r.d), elems |-> r.elems]))

\* getTransferSyntax: the TransferSyntaxUID of the data set resolved to
\* [bo, implicit, err, crashed].
getTransferSyntax(ds) ==
  Let(FindElementByTag(ds, TagTransferSyntaxUID), LAMBDA f :
    IF ~f.ok
    THEN [bo |-> "nil", implicit |-> UnknownVR, err |-> "not found", crashed |-> FALSE]
    ELSE IF ~GetString(f.elem).ok
    THEN [bo |-> "nil", implicit |-> UnknownVR, err |-> "GetString",
          crashed |-> GetString(f.elem).crashed]
    ELSE ParseTransferSyntaxUID(GetString(f.elem).v))

\* The elements of the data set in the metadata group.
MetadataOf(ds) == SelectSeq(ds, LAMBDA elem : elem.Tag.Group = TagMetadataGroup)

RECURSIVE WriteDataSetElements(_, _, _)
\* part_004 824-828: every element outside the metadata group is written.
WriteDataSetElements(e, ds, i) ==
  IF i > Len(ds) \/ e.crashed THEN e
  ELSE WriteDataSetElements(
         IF ds[i].Tag.Group # TagMetadataGroup THEN WriteElement(e, ds[i]) ELSE e,
         ds, i + 1)

\* WriteDataSet: [e, err], the encoder over the output and the error returned.
WriteDataSet(ds) ==
  Let(WriteFileHeader(NewEncoder("nil", UnknownVR), MetadataOf(ds)), LAMBDA h :
    IF h.crashed \/ h.err # "nil" THEN [e |-> h, err |-> h.err]
    ELSE Let(getTransferSyntax(ds), LAMBDA ts :
      IF ts.crashed THEN [e |-> Panic(h), err |-> "nil"]
      ELSE IF ts.err # "nil" THEN [e |-> h, err |-> ts.err]
      ELSE Let(PopTransferSyntax(
                 WriteDataSetElements(PushTransferSyntax(h, ts.bo, ts.implicit), ds, 1)),
               LAMBDA e : [e |-> e, err |-> e.err])))

\* ------------------------------------------------------------------ Spec
\* The decoder driven by an arbitrary caller: every exported operation of
\* buffer.go's Decoder, in any order, on a decoder made by NewDecoder over a
\* byte source holding exactly "limit" bytes.

RECURSIVE TestData(_)
TestData(n) == IF n = 0 THEN <<>> ELSE TestData(n - 1) \o <<9 + n>>

NoCodec == pc = "decoder" /\ inp = <<>> /\ enc = <<>> /\ res = <<>> /\ idx = 0

NoLim == [active |-> FALSE, n |-> 0, got |-> 0]

Init ==
  /\ \E n \in 0..MaxData, chunk \in 0..MaxChunk, bo \in {LittleEndian, BigEndian} :
        d = NewDecoder(TestData(n), chunk, n, bo, ExplicitVR)
  /\ out = [op |-> "NewDecoder", arg |-> 0, val |-> 0, pre |-> d]
  /\ lim = NoLim
  /\ NoCodec

Did(op, arg, val, dec, l) ==
  /\ ~d.crashed
  /\ d' = dec
  /\ out' = [op |-> op, arg |-> arg, val |-> val, pre |-> d]
  /\ lim' = l
  /\ UNCHANGED <<pc, inp, enc, res, idx>>

DoSetError ==
  \E err \in {"E1", "E2"} : Did("SetError", err, 0, SetError(d, err), NoLim)

DoPushLimit ==
  \E n \in 0..MaxArg :
    /\ Len(d.oldLimits) < MaxDepth
    /\ Did("PushLimit", n, 0, PushLimit(d, n),
           IF d.err = "nil" /\ DecLen(d) >= n
           THEN [active |-> TRUE, n |-> n, got |-> 0] ELSE NoLim)

DoPopLimit == Did("PopLimit", 0, 0, PopLimit(d), NoLim)

DoPushTransferSyntax ==
  \E bo \in {LittleEndian, BigEndian}, implicit \in {ImplicitVR, ExplicitVR} :
    /\ d.oldTransferSyntaxes = <<>>
    /\ Did("PushTransferSyntax", 0, 0, PushTransferSyntax(d, bo, implicit), lim)

DoPopTransferSyntax ==
  Did("PopTransferSyntax", 0, 0, PopTransferSyntax(d), lim)

DoDecodeByte ==
  \E r \in {DecodeByte(d)} :
    Did("DecodeByte", 0, r.v, r.d,
        IF lim.active /\ r.d.err = "nil" THEN [lim EXCEPT !.got = @ + 1] ELSE lim)

DoDecodeUInt16 ==
  \E r \in {DecodeUInt16(d)} : Did("DecodeUInt16", 0, r.v, r.d, NoLim)

DoDecodeUInt32 ==
  \E r \in {DecodeUInt32(d)} : Did("DecodeUInt32", 0, r.v, r.d, NoLim)

DoDecodeBytes ==
  \E n \in 0..MaxArg :
    \E r \in {DecodeBytes(d, n)} : Did("DecodeBytes", n, r.v, r.d, NoLim)

DoSkip ==
  \E n \in 0..MaxArg : Did("Skip", n, 0, Skip(d, n), NoLim)

DoFinish == Did("Finish", 0, Finish(d), d, lim)

DoError == Did("Error", 0, Error(d), d, lim)

Next ==
  \/ DoSetError
  \/ DoPushLimit
  \/ DoPopLimit
  \/ DoPushTransferSyntax
  \/ DoPopTransferSyntax
  \/ DoDecodeByte
  \/ DoDecodeUInt16
  \/ DoDecodeUInt32
  \/ DoDecodeBytes
  \/ DoSkip
  \/ DoFinish
  \/ DoError

Spec == Init /\ [][Next]_vars

\* ------------------------------------------------------------------ claims on Spec

\* C5: limit enforcement.  After PushLimit(n) on an error-free decoder with at
\* least n bytes remaining, Len() is n; while only DecodeByte calls follow,
\* Len() is n minus the bytes read, no error appears before n bytes were read,
\* and the error of the read after them is EOF with nothing consumed, whatever
\* the underlying source still holds.
C5_LimitEnforced ==
  /\ (out.op = "PushLimit" /\ out.pre.err = "nil" /\ DecLen(out.pre) >= out.arg)
        => (DecLen(d) = out.arg /\ d.err = "nil")
  /\ lim.active =>
        /\ d.err = "nil" => (lim.got <= lim.n /\ DecLen(d) = lim.n - lim.got)
        /\ d.err # "nil" => (d.err = "EOF" /\ lim.got = lim.n /\ DecLen(d) = 0)
        /\ (out.op = "DecodeByte" /\ d.err = "nil") => out.val = out.pre.in[1]

\* The scenario of TestLimit: limit 2 pushed on 3 bytes, two bytes read, the
\* third DecodeByte fails with EOF while the source still holds a byte.
C5_Witness ==
  /\ lim.active /\ lim.n = 2 /\ lim.got = 2
  /\ out.op = "DecodeByte" /\ d.err = "EOF" /\ d.in # <<>> /\ Len(d.oldLimits) = 1

\* C6: sticky first error.  Once a decoder holds an error no operation
\* (SetError with another error, a failing typed read, a failing DecodeBytes
\* or Skip, a PushLimit beyond the bound) replaces or clears it, and Error()
\* and Finish() return it.
C6_StickyFirstError ==
  [][d.err # "nil" =>
       /\ d'.err = d.err
       /\ out'.op \in {"Finish", "Error"} => out'.val = d.err]_vars

OutermostLimit(dec) == IF dec.oldLimits = <<>> THEN dec.limit ELSE dec.oldLimits[1]

\* C7 as stated: Finish returns no error iff no error is recorded and no
\* byte remains unread within the OUTERMOST limit.
C7_FinishOutermost ==
  out.op = "Finish" =>
    (out.val = "nil" <=> (out.pre.err = "nil" /\ OutermostLimit(out.pre) - out.pre.pos = 0))

\* C7 amended: Finish returns no error iff no error is recorded and no byte
\* remains unread within the CURRENT limit, which is the outermost limit
\* when every pushed limit has been popped.
C7_FinishCurrentLimit ==
  out.op = "Finish" =>
    /\ out.val = "nil" <=> (out.pre.err = "nil" /\ DecLen(out.pre) = 0)
    /\ out.pre.oldLimits = <<>> =>
          (out.val = "nil" <=> (out.pre.err = "nil" /\ OutermostLimit(out.pre) = out.pre.pos))
    /\ out.val # "nil" => (out.val = out.pre.err \/ out.pre.err = "nil")

\* Finish on an error-free decoder with part of the buffer unread.
C7_Witness ==
  /\ out.op = "Finish" /\ out.pre.err = "nil" /\ out.pre.oldLimits = <<>>
  /\ out.pre.pos > 0 /\ DecLen(out.pre) > 0 /\ out.val = "junk"

\* The limits from the outermost saved one to the current one.
LimitChain(dec) == Append(dec.oldLimits, dec.limit)

\* C24: in every reachable decoder state the position does not exceed the
\* current limit and every saved limit is at least the limit that overrides
\* it; PushLimit(n) installs position + n when that is within the current
\* limit, and otherwise records an error and installs the current position;
\* PopLimit restores exactly the limit in force before the matching
\* PushLimit, which no other operation touches.
C24_LimitInvariant ==
  /\ d.pos <= d.limit
  /\ \A k \in 1..Len(d.oldLimits) : LimitChain(d)[k] >= LimitChain(d)[k + 1]
  /\ out.op = "PushLimit" =>
       /\ d.oldLimits = Append(out.pre.oldLimits, out.pre.limit)
       /\ IF out.pre.pos + out.arg <= out.pre.limit
          THEN d.limit = out.pre.pos + out.arg /\ d.err = out.pre.err
          ELSE d.limit = out.pre.pos /\ d.err # "nil"
  /\ (out.op = "PopLimit" /\ out.pre.oldLimits # <<>>) =>
       LimitChain(d) = out.pre.oldLimits
  /\ out.op \notin {"PushLimit", "PopLimit", "NewDecoder"} =>
       LimitChain(d) = LimitChain(out.pre)

\* A PushLimit beyond the limit in force, undone by PopLimit.
C24_Witness ==
  /\ out.op = "PopLimit" /\ out.pre.err = "PushLimit"
  /\ Len(out.pre.oldLimits) = 2 /\ out.pre.limit = out.pre.pos
  /\ d.limit = out.pre.oldLimits[2] /\ d.limit > d.pos /\ d.limit < d.oldLimits[1]


\* C25: DecodeBytes(n) with at least n bytes left within the limit consumes
\* exactly n bytes and returns those n bytes in stream order, for every
\* underlying source, one that returns fewer bytes than asked for per read
\* included; with fewer than n bytes left it records an error, returns no
\* data and consumes nothing.
C25_DecodeBytes ==
  out.op = "DecodeBytes" =>
    IF DecLen(out.pre) >= out.arg
    THEN /\ ~d.crashed /\ d.err = out.pre.err
         /\ d.pos = out.pre.pos + out.arg
         /\ out.val = Take(out.pre.in, out.arg)
    ELSE /\ d.err # "nil" /\ out.val = <<>>
         /\ d.pos = out.pre.pos /\ d.in = out.pre.in

\* ------------------------------------------------------------------ the older Decoder
\* The Decoder of the older revision of the codec (part_006): the limits are
\* one stack with the newest at the end, PushLimit checks nothing, and the
\* typed reads, DecodeBytes and Skip assign the error field themselves
\* ("d.err = err") where buffer.go calls SetError.

NewDecoderOld(data, chunk, limit, bo, implicit) ==
  [in |-> data, chunk |-> chunk, err |-> "nil", bo |-> bo, implicit |-> implicit,
   pos |-> 0, limits |-> <<limit>>, crashed |-> FALSE]

\* SetError of the older Decoder is SetError of buffer.go: it writes only
\* when no error is recorded.
SetErrorOld(dec, err) == IF dec.err = "nil" THEN [dec EXCEPT !.err = err] ELSE dec

PushLimitOld(dec, limit) == [dec EXCEPT !.limits = Append(@, dec.pos + limit)]

\* d.limits[:len(d.limits)-1] is out of range on an empty stack.
PopLimitOld(dec) ==
  IF dec.limits = <<>> THEN [dec EXCEPT !.crashed = TRUE]
  ELSE [dec EXCEPT !.limits = SubSeq(@, 1, Len(@) - 1)]

\* Len(): called with at least one limit on the stack.
LenOld(dec) == dec.limits[Len(dec.limits)] - dec.pos

FinishOld(dec) ==
  IF dec.err # "nil" THEN dec.err
  ELSE IF LenOld(dec) # 0 THEN "junk"
  ELSE "nil"

\* Decoder.Read(p) with len(p) = plen: [d, n, err, data].  A limit below the
\* position makes p[:desired] a slice of negative length.
ReadOld(dec, plen) ==
  LET desired == LenOld(dec)
  IN IF desired = 0
     THEN [d |-> dec, n |-> 0, err |-> IF plen = 0 THEN "nil" ELSE "EOF", data |-> <<>>]
     ELSE IF desired < 0 /\ desired < plen
     THEN [d |-> [dec EXCEPT !.crashed = TRUE], n |-> 0, err |-> "nil", data |-> <<>>]
     ELSE LET want == IF desired < plen THEN desired ELSE plen
          IN \* n, err := d.in.Read(p); if err == nil { d.pos += int64(n) }
             IF dec.in = <<>>
             THEN [d |-> dec, n |-> 0, err |-> IF want = 0 THEN "nil" ELSE "EOF",
                   data |-> <<>>]
             ELSE LET n == IF dec.chunk = 0 THEN Min(want, Len(dec.in))
                           ELSE Min(Min(want, Len(dec.in)), dec.chunk)
                  IN [d |-> [dec EXCEPT !.in = Drop(@, n), !.pos = @ + n],
                      n |-> n, err |-> "nil", data |-> Take(dec.in, n)]

\* io.ReadFull over the older Read, as called by binary.Read.
RECURSIVE ReadFullOld(_, _, _)
ReadFullOld(dec, size, got) ==
  IF Len(got) >= size THEN [d |-> dec, err |-> "nil", data |-> got]
  ELSE Let(ReadOld(dec, size - Len(got)), LAMBDA r :
         IF r.d.crashed THEN [d |-> r.d, err |-> "nil", data |-> got]
         ELSE IF r.err # "nil"
         THEN [d |-> r.d,
               err |-> IF Len(got) > 0 /\ r.err = "EOF" THEN "ErrUnexpectedEOF" ELSE r.err,
               data |-> got]
         ELSE ReadFullOld(r.d, size, got \o r.data))

\* binary.Read(d, d.bo, &v) followed by "if err != nil { d.err = err }": the
\* error of the failed read takes the place of an error recorded before it.
\* [d, v] with v left zero when the read failed.
DecodeByteOld(dec) ==
  Let(ReadFullOld(dec, 1, <<>>), LAMBDA r :
    IF r.d.crashed THEN [d |-> r.d, v |-> 0]
    ELSE IF r.err # "nil" THEN [d |-> [r.d EXCEPT !.err = r.err], v |-> 0]
    ELSE [d |-> r.d, v |-> r.data[1]])

DecodeUInt16Old(dec) ==
  Let(ReadFullOld(dec, 2, <<>>), LAMBDA r :
    IF r.d.crashed THEN [d |-> r.d, v |-> 0]
    ELSE IF r.err # "nil" THEN [d |-> [r.d EXCEPT !.err = r.err], v |-> 0]
    ELSE [d |-> r.d, v |-> Uint16(dec.bo, r.data)])

DecodeUInt32Old(dec) ==
  Let(ReadFullOld(dec, 4, <<>>), LAMBDA r :
    IF r.d.crashed THEN [d |-> r.d, v |-> 0]
    ELSE IF r.err # "nil" THEN [d |-> [r.d EXCEPT !.err = r.err], v |-> 0]
    ELSE [d |-> r.d, v |-> Uint32(dec.bo, r.data)])

\* The loop of the older DecodeBytes: [d, v, remaining].  Every pass reads
\* into v from its start; a failed read is assigned to the error field and
\* ends the loop.
RECURSIVE DecodeBytesLoopOld(_, _, _)
DecodeBytesLoopOld(dec, v, remaining) ==
  IF remaining <= 0 THEN [d |-> dec, v |-> v, remaining |-> 0]
  ELSE Let(ReadOld(dec, Len(v)), LAMBDA r :
         IF r.d.crashed THEN [d |-> r.d, v |-> v, remaining |-> 0]
         ELSE IF r.err # "nil"
         THEN [d |-> [r.d EXCEPT !.err = r.err], v |-> v, remaining |-> remaining]
         ELSE IF r.n > remaining
         THEN [d |-> [r.d EXCEPT !.crashed = TRUE], v |-> v, remaining |-> 0]
         ELSE DecodeBytesLoopOld(r.d, r.data \o Drop(v, r.n), remaining - r.n))

\* With bytes missing after the loop the older DecodeBytes assigns its own
\* error and panics with it.
DecodeBytesOld(dec, length) ==
  Let(DecodeBytesLoopOld(dec, Zeros(length), length), LAMBDA r :
    IF r.remaining > 0
    THEN [d |-> [r.d EXCEPT !.err = "DecodeBytes", !.crashed = TRUE], v |-> <<>>]
    ELSE [d |-> r.d, v |-> r.v])

\* One Read of the whole length; both failures are assigned to the error field.
SkipOld(dec, bytes) ==
  Let(ReadOld(dec, bytes), LAMBDA r :
    IF r.d.crashed THEN r.d
    ELSE IF r.err # "nil" THEN [r.d EXCEPT !.err = r.err]
    ELSE IF r.n # bytes THEN [r.d EXCEPT !.err = "Skip"]
    ELSE r.d)

\* ------------------------------------------------------------------ SpecOldDecoder
\* The older Decoder driven by an arbitrary caller that pops no limit it did
\* not push.

OldInit ==
  /\ \E n \in 0..MaxData, chunk \in 0..MaxChunk, bo \in {LittleEndian, BigEndian} :
        d = NewDecoderOld(TestData(n), chunk, n, bo, ExplicitVR)
  /\ out = [op |-> "NewDecoder", arg |-> 0, val |-> 0, pre |-> d]
  /\ lim = NoLim
  /\ NoCodec

DoSetErrorOld ==
  \E err \in {"E1", "E2"} : Did("SetError", err, 0, SetErrorOld(d, err), lim)

DoPushLimitOld ==
  \E n \in 0..MaxArg :
    /\ Len(d.limits) <= MaxDepth
    /\ Did("PushLimit", n, 0, PushLimitOld(d, n), lim)

DoPopLimitOld ==
  /\ Len(d.limits) > 1
  /\ Did("PopLimit", 0, 0, PopLimitOld(d), lim)

DoDecodeByteOld ==
  \E r \in {DecodeByteOld(d)} : Did("DecodeByte", 0, r.v, r.d, lim)

DoDecodeUInt16Old ==
  \E r \in {DecodeUInt16Old(d)} : Did("DecodeUInt16", 0, r.v, r.d, lim)

DoDecodeUInt32Old ==
  \E r \in {DecodeUInt32Old(d)} : Did("DecodeUInt32", 0, r.v, r.d, lim)

DoDecodeBytesOld ==
  \E n \in 0..MaxArg :
    \E r \in {DecodeBytesOld(d, n)} : Did("DecodeBytes", n, r.v, r.d, lim)

DoSkipOld ==
  \E n \in 0..MaxArg : Did("Skip", n, 0, SkipOld(d, n), lim)

DoFinishOld == Did("Finish", 0, FinishOld(d), d, lim)

DoErrorOld == Did("Error", 0, Error(d), d, lim)

OldNext ==
  \/ DoSetErrorOld
  \/ DoPushLimitOld
  \/ DoPopLimitOld
  \/ DoDecodeByteOld
  \/ DoDecodeUInt16Old
  \/ DoDecodeUInt32Old
  \/ DoDecodeBytesOld
  \/ DoSkipOld
  \/ DoFinishOld
  \/ DoErrorOld

SpecOldDecoder == OldInit /\ [][OldNext]_vars

\* ------------------------------------------------------------------ SpecHeader
\* TestReadWriteFileHeader for every choice of the three UIDs and of the two
\* header writers: the header is written, the bytes are parsed back, the decoder is finished, and the transfer
\* syntax named by the parsed header is resolved as the dataset reader does.

TransferSyntaxInputs ==
  {ImplicitVRLittleEndian, ExplicitVRLittleEndian, ExplicitVRBigEndian,
   DeflatedExplicitVRLittleEndian, JPEGBaseline, DicomTransferCapability,
   DigitalMammographyXRayImageStorage, UnregisteredUID}

SOPClassInputs == {DigitalMammographyXRayImageStorage, UnregisteredUID2, JPEGBaseline}

SOPInstanceInputs == {UnregisteredUID, UnregisteredUID2}

NoDecoder == NewBytesDecoder(<<>>, LittleEndian, ImplicitVR)

NoOut == [op |-> "none", arg |-> 0, val |-> 0, pre |-> NoDecoder]

\* The metadata elements a caller hands to WriteFileHeader; withVersion adds
\* the optional FileMetaInformationVersion.
MetaElems(ts, class, inst, withVersion) ==
  (IF withVersion
   THEN <<MustNewElement(TagFileMetaInformationVersion, <<VBytes(<<0, 1>>)>>)>>
   ELSE <<>>)
  \o <<MustNewElement(TagTransferSyntaxUID, <<VString(ts)>>),
       MustNewElement(TagMediaStorageSOPClassUID, <<VString(class)>>),
       MustNewElement(TagMediaStorageSOPInstanceUID, <<VString(inst)>>)>>

RequiredMetaTags ==
  {TagTransferSyntaxUID, TagMediaStorageSOPClassUID, TagMediaStorageSOPInstanceUID}

\* The implementation's identity as a caller may supply it.
ImplementationElems ==
  <<MustNewElement(TagImplementationClassUID, <<VString(UnregisteredUID2)>>),
    MustNewElement(TagImplementationVersionName, <<VString(Bar)>>)>>

RECURSIVE WithoutTags(_, _)
WithoutTags(elems, tags) ==
  IF elems = <<>> THEN <<>>
  ELSE (IF Head(elems).Tag \in tags THEN <<>> ELSE <<Head(elems)>>)
       \o WithoutTags(Tail(elems), tags)

HeaderInit ==
  \E ts \in TransferSyntaxInputs, class \in SOPClassInputs, inst \in SOPInstanceInputs,
     withVersion \in BOOLEAN, withImplementation \in BOOLEAN,
     missing \in SUBSET RequiredMetaTags,
     w \in {"WriteFileHeader", "WriteFileHeaderOld"} :
    /\ w = "WriteFileHeaderOld" => (~withVersion /\ ~withImplementation /\ missing = {})
    /\ inp = [ts |-> ts, class |-> class, inst |-> inst, w |-> w,
              metaElems |->
                WithoutTags(MetaElems(ts, class, inst, withVersion), missing)
                \o (IF withImplementation THEN ImplementationElems ELSE <<>>)]
    /\ enc = NewEncoder(LittleEndian, ImplicitVR)
    /\ d = NoDecoder
    /\ out = NoOut
    /\ lim = NoLim
    /\ res = <<>>
    /\ idx = 0
    /\ pc = "WriteFileHeader"

DoWriteFileHeader ==
  /\ pc = "WriteFileHeader" /\ inp.w = "WriteFileHeader"
  /\ enc' = WriteFileHeader(enc, inp.metaElems)
  /\ pc' = "EncoderFinish"
  /\ UNCHANGED <<d, out, lim, inp, res, idx>>

DoWriteFileHeaderOld ==
  /\ pc = "WriteFileHeader" /\ inp.w = "WriteFileHeaderOld"
  /\ enc' = WriteFileHeaderOld(enc, inp.ts, inp.class, inp.inst)
  /\ pc' = "EncoderFinish"
  /\ UNCHANGED <<d, out, lim, inp, res, idx>>

DoHeaderEncoderFinish ==
  /\ pc = "EncoderFinish"
  /\ \E r \in {EncoderFinish(enc)} :
       /\ ~r.crashed /\ r.err = "nil"
       /\ d' = NewBytesDecoder(r.bytes, LittleEndian, ImplicitVR)
  /\ pc' = "ParseFileHeader"
  /\ UNCHANGED <<out, lim, inp, enc, res, idx>>

DoParseFileHeader ==
  /\ pc = "ParseFileHeader"
  /\ \E r \in {ParseFileHeader(d)} : d' = r.d /\ res' = r.elems
  /\ pc' = "Finish"
  /\ UNCHANGED <<out, lim, inp, enc, idx>>

DoHeaderFinish ==
  /\ pc = "Finish"
  /\ ~d.crashed
  /\ out' = [op |-> "Finish", arg |-> 0, val |-> Finish(d), pre |-> d]
  /\ pc' = "ParseTransferSyntaxUID"
  /\ UNCHANGED <<d, lim, inp, enc, res, idx>>

\* The dataset reader's next step: the TransferSyntaxUID of the parsed
\* metadata is resolved to (byte order, implicit).
DoParseTransferSyntaxUID ==
  /\ pc = "ParseTransferSyntaxUID"
  /\ out.val = "nil"
  /\ FindElementByTag(res, TagTransferSyntaxUID).ok
  /\ \E s \in {GetString(FindElementByTag(res, TagTransferSyntaxUID).elem)} :
       /\ s.ok
       /\ out' = [op |-> "ParseTransferSyntaxUID", arg |-> s.v,
                  val |-> ParseTransferSyntaxUID(s.v), pre |-> d]
  /\ pc' = "done"
  /\ UNCHANGED <<d, lim, inp, enc, res, idx>>

HeaderNext ==
  \/ DoWriteFileHeader
  \/ DoWriteFileHeaderOld
  \/ DoHeaderEncoderFinish
  \/ DoParseFileHeader
  \/ DoHeaderFinish
  \/ DoParseTransferSyntaxUID

SpecHeader == HeaderInit /\ [][HeaderNext]_vars

\* The bytes of the header before the metadata elements: preamble, "DICM" and
\* the (0002,0000) element in explicit VR (tag, "UL", 16-bit length, value).
HeaderPrefixSize == PreambleSize + 4 + 12

HeaderParsed == pc \in {"Finish", "ParseTransferSyntaxUID", "done"}

HasOneString(elems, tag, s) ==
  /\ FindElementByTag(elems, tag).ok
  /\ FindElementByTag(elems, tag).elem.Value = <<VString(s)>>
  /\ Cardinality({i \in 1..Len(elems) : elems[i].Tag = tag}) = 1

\* C3: WriteFileHeader followed by ParseFileHeader returns metadata in which
\* TransferSyntaxUID, MediaStorageSOPClassUID and MediaStorageSOPInstanceUID
\* each carry exactly one string, the one written; the value written in
\* (0002,0000) is the exact byte count of the metadata elements after it, and
\* the decoder ends fully consumed with no error.
C3_HeaderRoundTrip ==
  HeaderParsed =>
    /\ ~enc.crashed /\ enc.err = "nil"
    /\ ~d.crashed /\ d.err = "nil"
    /\ HasOneString(res, TagTransferSyntaxUID, inp.ts)
    /\ HasOneString(res, TagMediaStorageSOPClassUID, inp.class)
    /\ HasOneString(res, TagMediaStorageSOPInstanceUID, inp.inst)
    /\ res[1].Tag = TagFileMetaInformationGroupLength
    /\ res[1].Value = <<VUInt32(Len(enc.buf) - HeaderPrefixSize)>>
    /\ d.pos = Len(enc.buf) /\ d.oldLimits = <<>> /\ d.oldTransferSyntaxes = <<>>
    /\ Finish(d) = "nil"
    /\ (out.op = "Finish" => out.val = "nil")

C3_Witness ==
  /\ pc = "ParseTransferSyntaxUID"
  /\ out.op = "Finish" /\ out.val = "nil"
  /\ inp.ts = ImplicitVRLittleEndian
  /\ inp.class = DigitalMammographyXRayImageStorage
  /\ inp.inst = UnregisteredUID
  /\ Len(res) = 7

\* C4: ParseTransferSyntaxUID maps 1.2.840.10008.1.2 to (little-endian,
\* implicit), 1.2.840.10008.1.2.1 and 1.2.840.10008.1.2.1.99 to (little-endian,
\* explicit), 1.2.840.10008.1.2.2 to (big-endian, explicit), any other UID the
\* registry types as a transfer syntax to (little-endian, explicit), and gives
\* an error for a UID the registry does not know or types otherwise.
C4_ParseTransferSyntaxUID ==
  (pc = "done" /\ out.op = "ParseTransferSyntaxUID") =>
    LET uid == inp.ts
        r == out.val
        is(bo, implicit) == r.err = "nil" /\ ~r.crashed /\ r.bo = bo /\ r.implicit = implicit
    IN /\ out.arg = uid
       /\ uid = ImplicitVRLittleEndian => is(LittleEndian, ImplicitVR)
       /\ uid \in {ExplicitVRLittleEndian, DeflatedExplicitVRLittleEndian}
            => is(LittleEndian, ExplicitVR)
       /\ uid = ExplicitVRBigEndian => is(BigEndian, ExplicitVR)
       /\ (/\ uid \notin {ImplicitVRLittleEndian, ExplicitVRLittleEndian,
                          DeflatedExplicitVRLittleEndian, ExplicitVRBigEndian}
           /\ LookupUID(uid).ok /\ LookupUID(uid).Type = UIDTypeTransferSyntax)
            => is(LittleEndian, ExplicitVR)
       /\ (~LookupUID(uid).ok \/ LookupUID(uid).Type # UIDTypeTransferSyntax)
            => r.err # "nil"

C4_Witness ==
  /\ pc = "done" /\ out.op = "ParseTransferSyntaxUID"
  /\ inp.ts = DicomTransferCapability
  /\ out.val.err = "not a transfer syntax"

MissingMetaTags(tags) == { t \in tags : ~FindElementByTag(inp.metaElems, t).ok }

HeaderWritten == inp.w = "WriteFileHeader" /\ pc # "WriteFileHeader"

\* The parsed header holds the tag once, with the value v; a byte value may be
\* followed by padding.
HasDefault(elems, tag, v) ==
  /\ Cardinality({i \in 1..Len(elems) : elems[i].Tag = tag}) = 1
  /\ Len(FindElementByTag(elems, tag).elem.Value) = 1
  /\ FindElementByTag(elems, tag).elem.Value[1].t = v.t
  /\ Take(FindElementByTag(elems, tag).elem.Value[1].v, Len(v.v)) = v.v

\* C12: WriteFileHeader given metadata that lacks TransferSyntaxUID,
\* MediaStorageSOPClassUID or MediaStorageSOPInstanceUID records an error and
\* leaves the output encoder empty; given the three, it records no error, and
\* each of FileMetaInformationVersion, ImplementationClassUID and
\* ImplementationVersionName that the metadata lacks is in the header with its
\* default value.
C12_RequiredAndDefaults ==
  HeaderWritten =>
    /\ ~enc.crashed
    /\ MissingMetaTags(RequiredMetaTags) # {} => (enc.err # "nil" /\ enc.buf = <<>>)
    /\ MissingMetaTags(RequiredMetaTags) = {} =>
         /\ enc.err = "nil"
         /\ Len(enc.buf) > HeaderPrefixSize
         /\ HeaderParsed =>
              /\ TagFileMetaInformationVersion
                   \in MissingMetaTags({TagFileMetaInformationVersion})
                   => HasDefault(res, TagFileMetaInformationVersion, VBytes(Version01))
              /\ TagImplementationClassUID \in MissingMetaTags({TagImplementationClassUID})
                   => HasDefault(res, TagImplementationClassUID,
                                 VString(GoDICOMImplementationClassUID))
              /\ TagImplementationVersionName
                   \in MissingMetaTags({TagImplementationVersionName})
                   => HasDefault(res, TagImplementationVersionName,
                                 VString(GoDICOMImplementationVersionName))

C12_Witness ==
  /\ HeaderWritten
  /\ MissingMetaTags(RequiredMetaTags) = {TagMediaStorageSOPInstanceUID}
  /\ MissingMetaTags({TagFileMetaInformationVersion}) = {}
  /\ enc.err = "not found in metaelems" /\ enc.buf = <<>>

\* ------------------------------------------------------------------ SpecCodec
\* Elements are written one by one to an encoder under a transfer syntax, the
\* bytes are read back element by element under the same transfer syntax and
\* the decoder is finished (testWriteDataElement); the elements read are then
\* written again with WriteElement, as WriteDataSet does with the elements of
\* a dataset, and read again (TestWriteFile).

MaxItems == 2

TransferSyntaxesUnderTest ==
  { [bo |-> LittleEndian, implicit |-> ImplicitVR],
    [bo |-> LittleEndian, implicit |-> ExplicitVR],
    [bo |-> BigEndian, implicit |-> ExplicitVR] }

Date1 == <<49, 57, 57, 51, 48, 56, 50, 50>>
Date2 == <<49, 57, 57, 51, 48, 56, 50, 51>>

PatientNameElement == Element(TagPatientName, "PN", FALSE, <<VString(Bar)>>)

NativePixelDataElement ==
  Element(TagPixelData, "OW", FALSE, <<PixelDataInfo(<<>>, <<<<1, 2>>>>)>>)

\* testWriteDataElement's two elements, for a choice of the string and the list.
ScalarSeeds ==
  { <<Element(TagCodeString, "", FALSE, <<VString(s)>>),
      Element(TagUInt32List, "", FALSE, l)>> :
    s \in {FooHah, Bar},
    l \in {<<VUInt32(1234), VUInt32(2345)>>, <<VUInt32(-1)>>} }

\* One element of every other value shape.
ShapeSeeds ==
  { <<Element(TagCodeString, "CS", FALSE, <<VString(FooHah), VString(Bar)>>)>>,
    <<Element(TagAdditionalPatientHistory, "LT", FALSE, <<VString(Bar)>>)>>,
    <<Element(TagStudyDate, "DA", FALSE, <<VString(Date1)>>)>>,
    <<Element(TagStudyDate, "DA", FALSE, <<VString(Date1), VString(Date2)>>)>>,
    <<Element(TagRows, "US", FALSE, <<VUInt16(1), VUInt16(65535)>>)>>,
    <<Element(TagReferencePixelX0, "SL", FALSE, <<VInt32(-2), VInt32(3)>>)>>,
    <<Element(TagEncapsulatedDocument, "OB", FALSE, <<VBytes(<<1, 2, 3>>)>>)>>,
    <<Element(TagRedPaletteColorLookupTableData, "OW", FALSE, <<VBytes(<<1, 2, 3, 4>>)>>)>>,
    <<Element(TagPrivate, "", FALSE, <<VString(FooHah)>>)>>,
    <<NativePixelDataElement>> }

Item(undef, children) ==
  Element(TagItem, "NA", undef, [i \in 1..Len(children) |-> VElement(children[i])])

RECURSIVE ItemLists(_)
\* Every list of k Items, each of defined or undefined length, each holding
\* a PatientName.
ItemLists(k) ==
  IF k = 0 THEN {<<>>}
  ELSE { Append(l, VElement(Item(undef, <<PatientNameElement>>))) :
         l \in ItemLists(k - 1), undef \in BOOLEAN }

\* An undefined-length SQ of k Items, followed by another element.
SequenceSeeds ==
  { <<Element(TagReferencedImageSequence, "SQ", TRUE, items),
      Element(TagRows, "US", FALSE, <<VUInt16(512)>>)>> :
    items \in UNION { ItemLists(k) : k \in 0..MaxItems } }

\* Items at top level, and sequences of Items, of defined and undefined length.
ContainerSeeds ==
  { <<Item(undef, children)>> :
    undef \in BOOLEAN, children \in {<<>>, <<PatientNameElement>>} }
  \cup { <<Element(TagReferencedImageSequence, "SQ", undef, items)>> :
         undef \in BOOLEAN, items \in UNION { ItemLists(k) : k \in 0..MaxItems } }

PixelSeeds ==
  { <<Element(TagPixelData, "OW", TRUE, <<PixelDataInfo(offsets, frames)>>)>> :
    offsets \in {<<>>, <<0>>, <<0, 12>>},
    frames \in {<<>>, <<<<1, 2>>>>, <<<<1, 2, 3, 4>>, <<5, 6>>>>} }

\* PatientName and PixelData, at top level and as the children of an Item.
DropSeeds ==
  { <<PatientNameElement, NativePixelDataElement>> }
  \cup { <<Element(TagReferencedImageSequence, "SQ", sqUndef,
                   <<VElement(Item(itemUndef, children))>>)>> :
         sqUndef \in BOOLEAN, itemUndef \in BOOLEAN,
         children \in { <<PatientNameElement, NativePixelDataElement>>,
                        <<NativePixelDataElement, PatientNameElement>> } }

\* Elements as another producer writes them: an AT element with one tag, and,
\* in explicit VR, a PatientName that the stream declares as UL.
ForeignElements(bo, implicit) ==
  { EncodeUInt16(EncodeUInt16(
      encodeElementHeader(NewEncoder(bo, implicit), TagFrameIncrementPointer, "AT", 4),
      24), 4195).buf }
  \cup (IF implicit = ExplicitVR
        THEN { EncodeUInt32(
                 encodeElementHeader(NewEncoder(bo, implicit), TagPatientName, "UL", 4),
                 7).buf }
        ELSE {})

Scenario(kind, elems, foreign, w, ts, drop) ==
  [kind |-> kind, elems |-> elems, foreign |-> foreign, w |-> w, bo |-> ts.bo,
   implicit |-> ts.implicit, options |-> [DropPixelData |-> drop], pass |-> 1]

Scenarios ==
  UNION { { Scenario("scalars", s, <<>>, w, ts, FALSE) : s \in ScalarSeeds }
          \cup { Scenario("shape", s, <<>>, w, ts, FALSE) : s \in ShapeSeeds }
          \cup { Scenario("sq", s, <<>>, w, ts, FALSE) : s \in SequenceSeeds }
          \cup { Scenario("pixel", s, <<>>, w, ts, FALSE) : s \in PixelSeeds }
          \cup { Scenario("container", s, <<>>, w, ts, FALSE) : s \in ContainerSeeds }
          \cup { Scenario("drop", s, <<>>, w, ts, TRUE) : s \in DropSeeds } :
          w \in {"EncodeDataElement", "WriteElement"}, ts \in TransferSyntaxesUnderTest }
  \cup UNION { { Scenario("foreign", <<>>, f, "EncodeBytes", ts, FALSE) :
                 f \in ForeignElements(ts.bo, ts.implicit) } :
               ts \in TransferSyntaxesUnderTest }

CodecInit ==
  /\ inp \in Scenarios
  /\ enc = NewEncoder(inp.bo, inp.implicit)
  /\ d = NoDecoder
  /\ out = NoOut
  /\ lim = NoLim
  /\ res = <<>>
  /\ idx = 1
  /\ pc = "write"

Writing == pc = "write" /\ ~enc.crashed /\ idx <= Len(inp.elems)

DoEncodeDataElement ==
  /\ Writing /\ inp.w = "EncodeDataElement"
  /\ enc' = EncodeDataElement(enc, inp.elems[idx])
  /\ idx' = idx + 1
  /\ UNCHANGED <<d, out, lim, pc, inp, res>>

DoWriteElement ==
  /\ Writing /\ inp.w = "WriteElement"
  /\ enc' = WriteElement(enc, inp.elems[idx])
  /\ idx' = idx + 1
  /\ UNCHANGED <<d, out, lim, pc, inp, res>>

DoEncodeBytes ==
  /\ pc = "write" /\ inp.w = "EncodeBytes" /\ enc.buf = <<>>
  /\ enc' = EncodeBytes(enc, inp.foreign)
  /\ UNCHANGED <<d, out, lim, pc, inp, res, idx>>

\* Encoder.Finish; the bytes go to a decoder unless the writer recorded an error.
DoEncoderFinish ==
  /\ pc = "write" /\ ~enc.crashed /\ idx > Len(inp.elems)
  /\ inp.w = "EncodeBytes" => enc.buf # <<>>
  /\ \E r \in {EncoderFinish(enc)} :
       IF r.err = "nil"
       THEN d' = NewBytesDecoder(r.bytes, inp.bo, inp.implicit) /\ pc' = "read"
       ELSE d' = d /\ pc' = "rejected"
  /\ UNCHANGED <<out, lim, inp, enc, res, idx>>

\* One ReadElement call; the element goes to the result unless it is nil. A
\* nil return without an error, which is a dropped PixelData, ends the reading:
\* ReadElement has consumed the tag only, and what follows is its caller's.
DoReadElement ==
  /\ pc = "read" /\ ~d.crashed /\ d.err = "nil" /\ DecLen(d) > 0
  /\ \E r \in {ReadElement(d, inp.options)} :
       /\ d' = r.d
       /\ out' = [op |-> "ReadElement", arg |-> 0, val |-> r.elem, pre |-> d]
       /\ res' = IF r.d.err = "nil" /\ ~r.d.crashed /\ r.elem # NilElement
                 THEN Append(res, r.elem) ELSE res
       /\ pc' = IF r.d.err = "nil" /\ ~r.d.crashed /\ r.elem = NilElement
                THEN "dropped" ELSE pc
  /\ UNCHANGED <<lim, inp, enc, idx>>

DoCodecFinish ==
  /\ pc = "read" /\ ~d.crashed /\ (d.err # "nil" \/ DecLen(d) = 0)
  /\ out' = [op |-> "Finish", arg |-> 0, val |-> Finish(d), pre |-> d]
  /\ pc' = "done"
  /\ UNCHANGED <<d, lim, inp, enc, res, idx>>

\* The UID of a transfer syntax under test.
TransferSyntaxUIDOf(ts) ==
  IF ts.implicit = ImplicitVR THEN ImplicitVRLittleEndian
  ELSE IF ts.bo = LittleEndian THEN ExplicitVRLittleEndian
  ELSE ExplicitVRBigEndian

\* The metadata elements the reader produces from the header of a file in the
\* transfer syntax.
HeaderElements(ts) ==
  ParseFileHeader(
    NewBytesDecoder(
      WriteFileHeader(NewEncoder(LittleEndian, ExplicitVR),
                      MetaElems(TransferSyntaxUIDOf(ts), DigitalMammographyXRayImageStorage,
                                UnregisteredUID, TRUE)).buf,
      LittleEndian, ExplicitVR)).elems

\* The elements read without error, after the metadata of their file, are
\* the dataset D; WriteDataSet writes it.
DoWriteDataSet ==
  /\ pc = "done" /\ inp.pass = 1 /\ out.val = "nil" /\ ~inp.options.DropPixelData
  /\ \E ds \in {HeaderElements(TransferSyntax(inp)) \o res} :
       \E r \in {WriteDataSet(ds)} :
         /\ inp' = [inp EXCEPT !.elems = ds, !.pass = 2, !.w = "WriteDataSet"]
         /\ enc' = r.e
         /\ out' = [op |-> "WriteDataSet", arg |-> 0, val |-> r.err, pre |-> d]
         /\ idx' = Len(ds) + 1
         /\ pc' = IF r.err = "nil" /\ ~r.e.crashed THEN "ReadDataSet" ELSE "rejected"
  /\ d' = NoDecoder
  /\ res' = <<>>
  /\ UNCHANGED lim

\* The start of the data set reader over the bytes written: the file header
\* is parsed, its TransferSyntaxUID resolved and pushed; the elements of the
\* body are then read one by one.
DoReadDataSet ==
  /\ pc = "ReadDataSet"
  /\ \E h \in {ParseFileHeader(NewBytesDecoder(enc.buf, LittleEndian, ExplicitVR))} :
       \E ts \in {getTransferSyntax(h.elems)} :
         /\ d' = IF h.d.err # "nil" \/ h.d.crashed THEN h.d
                 ELSE IF ts.crashed THEN Panic(h.d)
                 ELSE IF ts.err # "nil" THEN SetError(h.d, ts.err)
                 ELSE PushTransferSyntax(h.d, ts.bo, ts.implicit)
         /\ res' = h.elems
  /\ pc' = "read"
  /\ UNCHANGED <<out, lim, inp, enc, idx>>

CodecNext ==
  \/ DoEncodeDataElement
  \/ DoWriteElement
  \/ DoEncodeBytes
  \/ DoEncoderFinish
  \/ DoReadElement
  \/ DoCodecFinish
  \/ DoWriteDataSet
  \/ DoReadDataSet

SpecCodec == CodecInit /\ [][CodecNext]_vars

\* ------------------------------------------------------------------ Claims on SpecCodec

\* Neither the encoder nor the decoder has recorded an error or crashed, and
\* the bytes written were handed to the decoder.
NoCodecError ==
  /\ ~enc.crashed /\ enc.err = "nil" /\ pc # "rejected"
  /\ ~d.crashed /\ d.err = "nil"

\* The elements read carry the tags and the values of the elements written,
\* in the same order.
SameTagsAndValues(read, written) ==
  /\ Len(read) = Len(written)
  /\ \A i \in 1..Len(written) :
       read[i].Tag = written[i].Tag /\ read[i].Value = written[i].Value

\* The run has ended and Finish has returned no error.
FinishedClean == pc = "done" /\ out.op = "Finish" /\ out.val = "nil"

\* C1: for each of the three transfer syntaxes, writing (0018,9755) with one
\* string and (0020,9057) with a list of uint32 values, and reading two
\* elements back under the same transfer syntax, yields the same tags with the
\* same values in the same order, records no error and leaves the decoder
\* fully consumed.
C1_ScalarRoundTrip ==
  (inp.kind = "scalars" /\ inp.pass = 1) =>
    /\ NoCodecError
    /\ pc = "done" => FinishedClean /\ SameTagsAndValues(res, inp.elems)

C1_Witness ==
  /\ inp.kind = "scalars" /\ inp.pass = 1 /\ inp.w = "EncodeDataElement"
  /\ inp.bo = BigEndian /\ inp.implicit = ExplicitVR
  /\ FinishedClean
  /\ Len(res) = 2
  /\ res[1].Tag = TagCodeString /\ res[1].Value = <<VString(FooHah)>>
  /\ res[2].Tag = TagUInt32List /\ res[2].Value = <<VUInt32(1234), VUInt32(2345)>>

\* C2: for every dataset D the reader produced, writing D with WriteDataSet
\* and reading the output again gives D' with, tag by tag, the value list of
\* D; the writer accepts without error every element the reader produced.
C2_RoundTripLaw ==
  inp.pass = 2 =>
    /\ NoCodecError
    /\ pc = "done" => FinishedClean /\ SameTagsAndValues(res, inp.elems)

\* The length of the bytes of the sequence, the first element written.
SequenceSize == Len(WriteAny(inp.w, NewEncoder(inp.bo, inp.implicit), inp.elems[1]).buf)

\* C8: an undefined-length SQ of k Items, each of defined or undefined length,
\* is read back as one SQ with exactly the k Items in the same order; the
\* reader consumes the delimiters and leaves the decoder right after the
\* SequenceDelimitation, where the next element is read.
C8_UndefinedLengthSequence ==
  (inp.kind = "sq" /\ inp.pass = 1) =>
    /\ NoCodecError
    /\ Len(res) >= 1 =>
         /\ res[1] = inp.elems[1]
         /\ Len(res[1].Value) = Len(inp.elems[1].Value)
         /\ \A i \in 1..Len(res[1].Value) :
              res[1].Value[i].t = "Element" /\ res[1].Value[i].v.Tag = TagItem
    /\ (out.op = "ReadElement" /\ Len(res) = 1) => d.pos = SequenceSize
    /\ Len(res) >= 2 => res[2] = inp.elems[2]
    /\ pc = "done" => FinishedClean /\ Len(res) = 2

C8_Witness ==
  /\ inp.kind = "sq" /\ inp.pass = 1 /\ inp.w = "WriteElement"
  /\ out.op = "ReadElement" /\ Len(res) = 1
  /\ res[1].Tag = TagReferencedImageSequence /\ res[1].UndefinedLength
  /\ Len(res[1].Value) = 2
  /\ res[1].Value[1].v.UndefinedLength /\ ~res[1].Value[2].v.UndefinedLength
  /\ d.pos = SequenceSize /\ d.pos < Len(enc.buf)

\* The bytes the claim gives for an undefined-length PixelData: the header,
\* an Item holding the offsets as uint32, an Item per frame, the terminator.
EncapsulatedBytes(bo, implicit, elem) ==
  encodeElementHeader(
    writeRawItems(
      writeRawItem(
        encodeElementHeader(NewEncoder(bo, implicit), elem.Tag, "OW", undefinedLength),
        EncodeUInt32s(NewEncoder(bo, ImplicitVR), elem.Value[1].v.Offsets).buf),
      elem.Value[1].v.Frames),
    TagSequenceDelimitationItem, "", 0).buf

\* C9: an undefined-length PixelData with PixelDataInfo{offsets, frames} is
\* written as an Item whose payload is the offsets, an Item per frame and the
\* terminator, and is read back as one PixelDataInfo with the same offsets
\* (<<0>> for an empty offset table) and the same frames in the same order.
C9_EncapsulatedPixelData ==
  (inp.kind = "pixel" /\ inp.pass = 1) =>
    /\ NoCodecError
    /\ pc \in {"read", "done"} =>
         enc.buf = EncapsulatedBytes(inp.bo, inp.implicit, inp.elems[1])
    /\ pc = "done" =>
         /\ FinishedClean
         /\ Len(res) = 1 /\ res[1].Tag = TagPixelData
         /\ res[1].Value =
              <<PixelDataInfo(IF inp.elems[1].Value[1].v.Offsets = <<>> THEN <<0>>
                              ELSE inp.elems[1].Value[1].v.Offsets,
                              inp.elems[1].Value[1].v.Frames)>>

RECURSIVE HasTag(_, _)
\* The element, or one nested in it, has the tag.
HasTag(elem, tag) ==
  /\ elem # NilElement
  /\ \/ elem.Tag = tag
     \/ \E i \in 1..Len(elem.Value) :
          elem.Value[i].t = "Element" /\ HasTag(elem.Value[i].v, tag)

\* C10: with DropPixelData, ReadElement returns nil without an error at a
\* PixelData tag, and the elements read hold every other element written
\* (PatientName) and no PixelData, at top level and inside an Item.
C10_DropPixelData ==
  inp.kind = "drop" =>
    /\ NoCodecError
    /\ (out.op = "ReadElement" /\ readTag(out.pre).tag = TagPixelData) =>
         out.val = NilElement
    /\ pc = "done" => FinishedClean
    /\ pc \in {"done", "dropped"} =>
         /\ \E i \in 1..Len(res) : HasTag(res[i], TagPatientName)
         /\ \A i \in 1..Len(res) : ~HasTag(res[i], TagPixelData)

\* ------------------------------------------------------------------ Query
\* queryretrieve.go.  A result is [match, elem, err, crashed]; crashed is a
\* failed type assertion or vlog.Fatalf.

QueryResult(match, elem, err) ==
  [match |-> match, elem |-> elem, err |-> err, crashed |-> FALSE]

querySequence(elem, f) == QueryResult(TRUE, NilElement, "nil")

\* The nested loops over the filter's values and the element's values, each
\* value asserted to the Go type t before it is compared.  Position
\* (i - 1) * (n + 1) is the assertion of filter value i, and position
\* (i - 1) * (n + 1) + j the assertion and comparison of element value j
\* against it; the first position that panics or matches decides.
PanicPositions(fvals, evals, t) ==
  { (i - 1) * (Len(evals) + 1) : i \in { k \in 1..Len(fvals) : fvals[k].t # t } }
  \cup { (p[1] - 1) * (Len(evals) + 1) + p[2] :
         p \in { q \in (1..Len(fvals)) \X (1..Len(evals)) : evals[q[2]].t # t } }

\* The bits of a float32 (a uint32 in two's complement) without the sign.
Magnitude32(v) == IF v < 0 THEN (v + 1073741824) + 1073741824 ELSE v

\* A NaN has the exponent all ones and a fraction: it lies above the
\* infinity, 0x7f800000.
IsNaN32(v) == Magnitude32(v) > 2139095040

\* The bytes of a float64, most significant first, without the sign.
Magnitude64(b) == <<b[1] % 128>> \o SubSeq(b, 2, 8)

\* Above the infinity, 7f f0 00 00 00 00 00 00.
IsNaN64(b) ==
  /\ Magnitude64(b)[1] = 127 /\ b[2] >= 240
  /\ Magnitude64(b) # <<127, 240, 0, 0, 0, 0, 0, 0>>

\* The == of Go on two values of the type t: floats compare as IEEE-754 has
\* it, a NaN equal to nothing and the two zeros equal.
GoEqual(t, x, y) ==
  CASE t = "float32" ->
         /\ ~IsNaN32(x) /\ ~IsNaN32(y)
         /\ x = y \/ (Magnitude32(x) = 0 /\ Magnitude32(y) = 0)
    [] t = "float64" ->
         /\ ~IsNaN64(x) /\ ~IsNaN64(y)
         /\ x = y \/ (Magnitude64(x) = Zeros(8) /\ Magnitude64(y) = Zeros(8))
    [] OTHER -> x = y

MatchPositions(fvals, evals, t) ==
  { (p[1] - 1) * (Len(evals) + 1) + p[2] :
    p \in { q \in (1..Len(fvals)) \X (1..Len(evals)) :
            /\ fvals[q[1]].t = t /\ evals[q[2]].t = t
            /\ GoEqual(t, fvals[q[1]].v, evals[q[2]].v) } }

FirstOf(positions) == CHOOSE k \in positions : \A m \in positions : k <= m

MatchValues(fvals, evals, t) ==
  Let(PanicPositions(fvals, evals, t), LAMBDA bad :
  Let(MatchPositions(fvals, evals, t), LAMBDA hit :
    IF bad \cup hit = {} THEN QueryResult(FALSE, NilElement, "nil")
    ELSE IF FirstOf(bad \cup hit) \in bad
    THEN Panic(QueryResult(FALSE, NilElement, "nil"))
    ELSE QueryResult(TRUE, NilElement, "nil")))

ComparableTypes ==
  {"int32", "int16", "uint32", "uint16", "float32", "float64", "string"}

queryElement(elem, f) ==
  IF Len(f.Value) = 0 THEN QueryResult(TRUE, NilElement, "nil")
  ELSE IF f.VR = "SQ" THEN querySequence(f, elem)
  ELSE IF elem = NilElement THEN QueryResult(FALSE, NilElement, "nil")
  ELSE IF f.VR # elem.VR THEN QueryResult(FALSE, NilElement, "VR mismatch")
  ELSE IF f.VR = "UI" THEN MatchValues(f.Value, elem.Value, "string")
  ELSE IF Len(f.Value) > 1
  THEN QueryResult(FALSE, NilElement, "Multiple values found in filter")
  ELSE IF f.Value[1].t \in ComparableTypes
  THEN MatchValues(<<f.Value[1]>>, elem.Value, f.Value[1].t)
  ELSE Panic(QueryResult(FALSE, NilElement, "nil"))

Query(ds, f) ==
  IF f.Tag = TagQueryRetrieveLevel \/ f.Tag = TagSpecificCharacterSet
  THEN QueryResult(TRUE, NilElement, "nil")
  ELSE Let(FindElementByTag(ds, f.Tag).elem, LAMBDA elem :
       Let(queryElement(elem, f), LAMBDA r :
         IF r.crashed THEN r
         ELSE IF r.match THEN QueryResult(TRUE, elem, "nil")
         ELSE QueryResult(FALSE, NilElement, r.err)))

\* ------------------------------------------------------------------ SpecQuery
\* Query over every dataset and filter below (query_test.go's TestParse0 made
\* general): one call, its result kept in out.val.

\* "1.2.840.113857.1907.192833.1115.220048"
StudyUID ==
  <<49, 46, 50, 46, 56, 52, 48, 46, 49, 49, 51, 56, 53, 55, 46, 49, 57, 48, 55, 46,
    49, 57, 50, 56, 51, 51, 46, 49, 49, 49, 53, 46, 50, 50, 48, 48, 52, 56>>

\* "STUDY"
LevelStudy == <<83, 84, 85, 68, 89>>

Strings(ss) == [i \in 1..Len(ss) |-> VString(ss[i])]

UInt16s(ns) == [i \in 1..Len(ns) |-> VUInt16(ns[i])]

QuerySequenceElement(name) ==
  Element(TagReferencedImageSequence, "SQ", TRUE,
          <<VElement(Item(FALSE, <<Element(TagPatientName, "PN", FALSE, <<VString(name)>>)>>))>>)

\* Floats by their bits: a NaN, one, and the two zeros.
NaN32 == Uint32(BigEndian, <<127, 192, 0, 0>>)
One32 == Uint32(BigEndian, <<63, 128, 0, 0>>)
NegZero32 == Uint32(BigEndian, <<128, 0, 0, 0>>)
NaN64 == <<127, 248, 0, 0, 0, 0, 0, 0>>
NegZero64 == <<128, 0, 0, 0, 0, 0, 0, 0>>

\* A private element of floats, as the reader yields it under explicit VR.
FloatElements ==
  { Element(TagPrivate, "FL", FALSE, <<VFloat32(NaN32)>>),
    Element(TagPrivate, "FL", FALSE, <<VFloat32(One32), VFloat32(NegZero32)>>),
    Element(TagPrivate, "FD", FALSE, <<VFloat64(NaN64)>>),
    Element(TagPrivate, "FD", FALSE, <<VFloat64(NegZero64)>>) }

FloatFilters ==
  { Element(TagPrivate, "FL", FALSE, <<VFloat32(v)>>) : v \in {NaN32, One32, 0} }
  \cup { Element(TagPrivate, "FD", FALSE, <<VFloat64(b)>>) : b \in {NaN64, Zeros(8)} }

QueryDataSets ==
  { << Element(TagPatientName, pnvr, FALSE, <<VString(Bar)>>),
       Element(TagStudyInstanceUID, "UI", FALSE, Strings(uids)),
       Element(TagRows, "US", FALSE, UInt16s(rows)),
       Element(TagQueryRetrieveLevel, "CS", FALSE, <<VString(LevelStudy)>>),
       QuerySequenceElement(Bar),
       Element(TagFrameIncrementPointer, "AT", FALSE, <<VTag(TagRows)>>),
       Element(TagEncapsulatedDocument, "OB", FALSE, <<VBytes(<<1, 2>>)>>),
       float >> :
    pnvr \in {"PN", "LO"},
    float \in FloatElements,
    uids \in {<<StudyUID>>, <<UnregisteredUID, StudyUID>>},
    rows \in {<<1>>, <<1, 2>>} }

QueryFilters ==
  { MustNewElement(TagStudyInstanceUID, Strings(uids)) :
      uids \in {<<>>, <<StudyUID>>, <<UnregisteredUID2>>, <<UnregisteredUID2, StudyUID>>,
                <<UnregisteredUID>>, <<UnregisteredUID2, ImplicitVRLittleEndian>>} }
  \cup { MustNewElement(TagPatientName, Strings(names)) :
      names \in {<<>>, <<Bar>>, <<FooHah>>, <<Bar, FooHah>>, <<FooHah, FooHah>>} }
  \cup { MustNewElement(TagRows, UInt16s(rows)) : rows \in {<<1>>, <<2>>, <<3>>, <<2, 1>>} }
  \cup { MustNewElement(TagQueryRetrieveLevel, Strings(levels)) :
      levels \in {<<LevelStudy>>, <<Bar>>} }
  \cup { QuerySequenceElement(Bar), QuerySequenceElement(FooHah),
         MustNewElement(TagFrameIncrementPointer, <<VTag(TagRows)>>),
         MustNewElement(TagEncapsulatedDocument, <<VBytes(<<1, 2>>)>>),
         MustNewElement(TagCodeString, <<VString(Bar)>>) }
  \cup FloatFilters

QueryInit ==
  \E ds \in QueryDataSets, f \in QueryFilters :
    /\ inp = [ds |-> ds, f |-> f]
    /\ enc = NewEncoder(LittleEndian, ImplicitVR)
    /\ d = NoDecoder
    /\ out = NoOut
    /\ lim = NoLim
    /\ res = <<>>
    /\ idx = 0
    /\ pc = "Query"

DoQuery ==
  /\ pc = "Query"
  /\ out' = [op |-> "Query", arg |-> 0, val |-> Query(inp.ds, inp.f), pre |-> NoDecoder]
  /\ pc' = "done"
  /\ UNCHANGED <<d, lim, inp, enc, res, idx>>

QueryNext == DoQuery

SpecQuery == QueryInit /\ [][QueryNext]_vars

\* ------------------------------------------------------------------ Claims on SpecQuery

StoredElement == FindElementByTag(inp.ds, inp.f.Tag)

\* Some filter value equals some stored value, of the same type and by the ==
\* of that type.
SomeValueEqual(f, elem) ==
  \E i \in 1..Len(f.Value), j \in 1..Len(elem.Value) :
    /\ f.Value[i].t = elem.Value[j].t
    /\ GoEqual(f.Value[i].t, f.Value[i].v, elem.Value[j].v)

\* The filters the claim is about: a non-empty value list, a tag that is in the
\* dataset, and a tag other than the two that section 4.8 lets match
\* unconditionally.
QueryInScope ==
  /\ pc = "done"
  /\ Len(inp.f.Value) > 0
  /\ StoredElement.ok
  /\ inp.f.Tag \notin {TagQueryRetrieveLevel, TagSpecificCharacterSet}

QueryIsError(f, elem) == f.VR # elem.VR \/ (f.VR # "UI" /\ Len(f.Value) > 1)

\* C11: Query on a filter with values whose tag is in the dataset never ends
\* the process, and: it returns an error when the filter's VR differs from the
\* stored element's or a non-UI filter has several values; otherwise it
\* returns match = true with the stored element when some filter value equals
\* some stored value, and match = false with no element and no error when none does.
C11_Query ==
  QueryInScope =>
    /\ ~out.val.crashed
    /\ QueryIsError(inp.f, StoredElement.elem) => out.val.err # "nil"
    /\ (~QueryIsError(inp.f, StoredElement.elem)
        /\ SomeValueEqual(inp.f, StoredElement.elem)) =>
         /\ out.val.match /\ out.val.elem = StoredElement.elem /\ out.val.err = "nil"
    /\ (~QueryIsError(inp.f, StoredElement.elem)
        /\ ~SomeValueEqual(inp.f, StoredElement.elem)) =>
         /\ ~out.val.match /\ out.val.elem = NilElement /\ out.val.err = "nil"

\* ------------------------------------------------------------------ SpecRead
\* The element reader on byte streams that no writer of this package made:
\* one element whose header holds any tag, VR and length over a payload of any
\* size, and sequences of header and delimiter pieces.  ReadElement is called
\* until the stream is used up or an error is recorded, and the decoder is
\* finished, as the dataset reader does after the file header.  Whole files
\* go through the data set reader from the file header on.

MaxPayload == 3

MaxPieces == 3

\* The header of an element as it lies in a stream: the tag, then the length
\* as 32 bits ("implicit"), or the VR and the length as 16 bits ("short"), or
\* the VR, two reserved bytes and the length as 32 bits ("long").
RawHeader(bo, framing, tag, vr, vl) ==
  PutUint16(bo, tag.Group) \o PutUint16(bo, tag.Element)
  \o (CASE framing = "implicit" -> PutUint32(bo, vl)
        [] framing = "short" -> VRToBytes(vr) \o PutUint16(bo, vl)
        [] OTHER -> VRToBytes(vr) \o <<0, 0>> \o PutUint32(bo, vl))

\* The framing the standard gives the element under the transfer syntax.
Framing(implicit, tag, vr) ==
  IF implicit = ImplicitVR \/ tag.Group = itemSeqGroup THEN "implicit"
  ELSE IF vr \in LongVRs THEN "long" ELSE "short"

\* "1", "2", ...: payload bytes.
Payload(n) == [i \in 1..n |-> 48 + i]

\* The VR a reader finds for the header: the dictionary's under implicit
\* framing, the stream's otherwise.
HeaderVR(framing, tag, vr) ==
  IF framing # "implicit" THEN vr
  ELSE IF FindTag(tag).ok THEN FindTag(tag).VR ELSE "UN"

DictionaryTags ==
  {TagPatientName, TagRows, TagRedPaletteColorLookupTableData, TagEncapsulatedDocument,
   TagReferencedImageSequence, TagItem, TagItemDelimitationItem,
   TagSequenceDelimitationItem, TagPixelData, TagStudyDate, TagFrameIncrementPointer,
   TagAdditionalPatientHistory, TagReferencePixelX0, TagUInt32List, TagPrivate}

AllVRs == { p[1] : p \in vrBytes }

\* <<tag, VR>> of headers whose VR is not the dictionary's: of the same kind
\* (PN and LO are lists of strings) and of another kind.
MismatchedTagVRs ==
  {<<TagPatientName, "LO">>, <<TagPatientName, "US">>, <<TagRows, "SS">>, <<TagRows, "PN">>}

\* <<tag, VR>> of the headers: every dictionary tag with its VR, and in
\* explicit VR the private tag with every VR and the mismatched headers.
HeaderTagVRs(implicit) ==
  { <<t, HeaderVR("implicit", t, "")>> : t \in DictionaryTags }
  \cup (IF implicit = ExplicitVR
        THEN { <<TagPrivate, vr>> : vr \in AllVRs } \cup MismatchedTagVRs ELSE {})

\* Lengths of a header: small ones, even and odd, the undefined-length
\* sentinel, and the largest even and odd lengths of the field.
HeaderLengths(framing) ==
  (0..(MaxPayload + 1))
  \cup (IF framing = "short" THEN {65535, 65534, 65533} ELSE {-1, -2, -3})

StreamScenario(kind, ts, bytes, tag, vr, vl, framing, mem) ==
  [kind |-> kind, bo |-> ts.bo, implicit |-> ts.implicit,
   options |-> [DropPixelData |-> FALSE], bytes |-> bytes,
   tag |-> tag, vr |-> vr, vl |-> vl, framing |-> framing, mem |-> mem]

OneElementScenarios ==
  UNION { UNION { { StreamScenario("element", ts,
                      RawHeader(ts.bo, Framing(ts.implicit, tv[1], tv[2]), tv[1], tv[2], vl)
                      \o Payload(n),
                      tv[1], tv[2], vl, Framing(ts.implicit, tv[1], tv[2]), mem) :
                    vl \in HeaderLengths(Framing(ts.implicit, tv[1], tv[2])),
                    n \in 0..MaxPayload, mem \in {0, Huge} } :
                  tv \in HeaderTagVRs(ts.implicit) } :
          ts \in TransferSyntaxesUnderTest }

\* "AB"
NameAB == <<65, 66>>

Natural(ts, tag, vr, vl) == RawHeader(ts.bo, Framing(ts.implicit, tag, vr), tag, vr, vl)

\* The pieces streams are put together from.
Pieces(ts) ==
  { Natural(ts, TagReferencedImageSequence, "SQ", undefinedLength),
    Natural(ts, TagReferencedImageSequence, "SQ", 8),
    Natural(ts, TagItem, "NA", undefinedLength),
    Natural(ts, TagItem, "NA", 10),
    Natural(ts, TagItem, "NA", 2) \o <<1, 2>>,
    Natural(ts, TagItemDelimitationItem, "NA", 0),
    Natural(ts, TagSequenceDelimitationItem, "NA", 0),
    Natural(ts, TagSequenceDelimitationItem, "NA", 2),
    Natural(ts, TagPatientName, "PN", 2) \o NameAB,
    Natural(ts, TagPixelData, "OW", undefinedLength) }

RECURSIVE PieceStreams(_, _)
PieceStreams(ts, k) ==
  IF k = 0 THEN {<<>>}
  ELSE {<<>>} \cup { p \o s : p \in Pieces(ts), s \in PieceStreams(ts, k - 1) }

PieceScenarios ==
  UNION { { StreamScenario("pieces", ts, s, TagItem, "NA", 0, "implicit", 0) :
            s \in PieceStreams(ts, MaxPieces) \ {<<>>} } :
          ts \in TransferSyntaxesUnderTest }

\* The longest payload of text.
MaxText == 4

\* Space, NUL, backslash and "A": the bytes the string reader tells apart.
TextBytes == {32, 0, 92, 65}

RECURSIVE Texts(_)
\* Every payload of n text bytes.
Texts(n) ==
  IF n = 0 THEN {<<>>} ELSE { Append(t, b) : t \in Texts(n - 1), b \in TextBytes }

\* <<tag, VR>> of the elements read over a text payload: blobs, unknown and
\* string VRs.
TextTagVRs ==
  {<<TagEncapsulatedDocument, "OB">>, <<TagRedPaletteColorLookupTableData, "OW">>,
   <<TagPrivate, "UN">>, <<TagPatientName, "PN">>, <<TagAdditionalPatientHistory, "LT">>}

\* One element whose payload is a text of 0..MaxText bytes.
TextScenarios ==
  UNION { { StreamScenario("text", ts,
              RawHeader(ts.bo, Framing(ts.implicit, tv[1], tv[2]), tv[1], tv[2], Len(t)) \o t,
              tv[1], tv[2], Len(t), Framing(ts.implicit, tv[1], tv[2]), 0) :
            tv \in TextTagVRs, t \in UNION { Texts(n) : n \in 0..MaxText } } :
          ts \in TransferSyntaxesUnderTest }

\* The metadata of a file in the transfer syntax as WriteFileHeader lays it
\* out, without the preamble, "DICM" and the group length element.
FileMetadata(ts) ==
  Drop(WriteFileHeader(NewEncoder(LittleEndian, ExplicitVR),
                       MetaElems(TransferSyntaxUIDOf(ts), DigitalMammographyXRayImageStorage,
                                 UnregisteredUID, TRUE)).buf,
       HeaderPrefixSize)

\* An element of the metadata group that is no metadata: the tag PixelData
\* under the VR SQ, with no payload.
PixelDataAsSequence == RawHeader(LittleEndian, "long", TagPixelData, "SQ", 0)

\* A file: preamble, "DICM", the group length over the metadata and the
\* extra bytes, then the body in the transfer syntax.
FileBytes(ts, extra, body) ==
  Zeros(PreambleSize) \o DICM
  \o RawHeader(LittleEndian, "short", TagFileMetaInformationGroupLength, "UL", 4)
  \o PutUint32(LittleEndian, Len(FileMetadata(ts)) + Len(extra))
  \o FileMetadata(ts) \o extra \o body

\* Whole files: the header the writer makes, or one with the extra element
\* at the end of its metadata, before no body or one element.
FileScenarios ==
  UNION { { StreamScenario("file", ts, FileBytes(ts, extra, body),
                           TagPixelData, "SQ", 0, "long", 0) :
            extra \in {<<>>, PixelDataAsSequence},
            body \in {<<>>, Natural(ts, TagPatientName, "PN", 2) \o NameAB} } :
          ts \in TransferSyntaxesUnderTest }

\* A stream is read by a decoder in its transfer syntax; a file is handed to
\* the data set reader as the bytes of a buffer.
ReadInit ==
  /\ inp \in OneElementScenarios \cup PieceScenarios \cup TextScenarios \cup FileScenarios
  /\ d = IF inp.kind = "file" THEN NoDecoder
         ELSE [NewBytesDecoder(inp.bytes, inp.bo, inp.implicit) EXCEPT !.mem = inp.mem]
  /\ enc = IF inp.kind = "file"
           THEN EncodeBytes(NewEncoder(LittleEndian, ExplicitVR), inp.bytes)
           ELSE NewEncoder(inp.bo, inp.implicit)
  /\ out = NoOut
  /\ lim = NoLim
  /\ res = <<>>
  /\ idx = 0
  /\ pc = IF inp.kind = "file" THEN "ReadDataSet" ELSE "read"

ReadNext ==
  \/ DoReadDataSet
  \/ DoReadElement
  \/ DoCodecFinish

SpecRead == ReadInit /\ [][ReadNext]_vars

\* ------------------------------------------------------------------ Claims on SpecRead

\* C13: for every byte stream handed to the reader, the reading comes to an
\* end with a dataset or an error and the process does not crash: no failed
\* assertion, no dereference of a nil element, no access out of range, no
\* exhausted memory.
C13_NoCrash == ~d.crashed

\* The state after the one ReadElement call on a stream of one element.
FirstRead == inp.kind = "element" /\ out.op = "ReadElement" /\ out.pre.pos = 0

HeaderSize == Len(RawHeader(inp.bo, inp.framing, inp.tag, inp.vr, inp.vl))

PayloadSize == Len(inp.bytes) - HeaderSize

UndefinedIn(framing) == IF framing = "short" THEN 65535 ELSE undefinedLength

OddDefinedLength == inp.vl # UndefinedIn(inp.framing) /\ inp.vl % 2 = 1

\* C14: on the read path, under implicit and explicit framing and for every
\* VR, a header whose length is defined and odd makes ReadElement record an
\* error and return no element.
C14_OddLengthRejected ==
  (FirstRead /\ OddDefinedLength) =>
    /\ ~d.crashed /\ d.err # "nil"
    /\ out.val = NilElement /\ res = <<>>

C14_Witness ==
  /\ FirstRead /\ OddDefinedLength
  /\ inp.framing = "short" /\ inp.vr = "PN" /\ inp.vl = 3 /\ PayloadSize = 3
  /\ d.err = "Encountered odd length" /\ out.val = NilElement

\* An OB element whose payload is in the stream.
ReadsOB ==
  /\ FirstRead /\ HeaderVR(inp.framing, inp.tag, inp.vr) = "OB"
  /\ inp.tag \notin {TagPixelData, TagItem}
  /\ inp.vl >= 0 /\ inp.vl <= PayloadSize

\* C15 as stated: an element with VR OB whose VL is odd is accepted: no error
\* is recorded and the value is one byte blob of exactly VL bytes.
C15_OddOBAccepted ==
  (ReadsOB /\ OddDefinedLength) =>
    /\ d.err = "nil" /\ out.val # NilElement
    /\ out.val.Value = <<VBytes(Payload(inp.vl))>>

\* C15 as the code has it: an element with VR OB whose VL is odd is refused
\* with an error and no element, as any odd defined length is; with an even VL
\* no error is recorded and the value is one byte blob of exactly VL bytes.
C15_OBBlob ==
  ReadsOB =>
    IF OddDefinedLength
    THEN d.err # "nil" /\ out.val = NilElement
    ELSE /\ d.err = "nil" /\ ~d.crashed /\ out.val # NilElement
         /\ out.val.VR = "OB"
         /\ out.val.Value = <<VBytes(Payload(inp.vl))>>
         /\ d.pos = HeaderSize + inp.vl

C15_Witness ==
  /\ ReadsOB /\ OddDefinedLength
  /\ inp.tag = TagEncapsulatedDocument /\ inp.vl = 3 /\ PayloadSize = 3
  /\ d.err = "Encountered odd length" /\ out.val = NilElement

\* ------------------------------------------------------------------ SpecWrite
\* The element writers on elements of every payload size: one element is
\* written with WriteElement or EncodeDataElement under a transfer syntax and
\* the encoder is finished.

\* The size from which a length no longer fits the 16 bits of a short header.
ShortLengthLimit == 65536

\* Blobs and strings of every size from none to MaxPayload bytes.
Blobs == { Payload(n) : n \in 0..MaxPayload }

StringLists ==
  { <<VString(s)>> : s \in Blobs } \cup { <<VString(s), VString(t)>> : s \in Blobs, t \in Blobs }

PaddingSeeds ==
  { <<Element(TagEncapsulatedDocument, "OB", FALSE, <<VBytes(b)>>)>> : b \in Blobs }
  \cup { <<Element(TagRedPaletteColorLookupTableData, "OW", FALSE, <<VBytes(b)>>)>> :
         b \in Blobs }
  \cup { <<Element(TagCodeString, "CS", FALSE, l)>> : l \in StringLists }
  \cup { <<Element(TagPrivate, "", FALSE, l)>> : l \in StringLists }

\* A string and a blob of n bytes.
LongSeeds(n) ==
  { <<Element(TagCodeString, "CS", FALSE, <<VString([i \in 1..n |-> 65])>>)>>,
    <<Element(TagEncapsulatedDocument, "OB", FALSE, <<VBytes([i \in 1..n |-> 1])>>)>> }

\* An SQ, of defined or undefined length, whose only child is not an Item.
NonItemSeeds ==
  { <<Element(TagReferencedImageSequence, "SQ", undef, <<VElement(PatientNameElement)>>)>> :
    undef \in BOOLEAN }

WriteScenarios ==
  UNION { { Scenario("pad", s, <<>>, w, ts, FALSE) : s \in PaddingSeeds }
          \cup { Scenario("long", s, <<>>, w, ts, FALSE) : s \in LongSeeds(ShortLengthLimit) }
          \cup { Scenario("shape", s, <<>>, w, ts, FALSE) : s \in ShapeSeeds }
          \cup { Scenario("nonitem", s, <<>>, w, ts, FALSE) : s \in NonItemSeeds }
          \cup { Scenario("container", s, <<>>, w, ts, FALSE) : s \in ContainerSeeds }
          \cup { Scenario("pixel", s, <<>>, w, ts, FALSE) : s \in PixelSeeds } :
          w \in {"EncodeDataElement", "WriteElement"}, ts \in TransferSyntaxesUnderTest }

WriteInit ==
  /\ inp \in WriteScenarios
  /\ enc = NewEncoder(inp.bo, inp.implicit)
  /\ d = NoDecoder
  /\ out = NoOut
  /\ lim = NoLim
  /\ res = <<>>
  /\ idx = 1
  /\ pc = "write"

\* Encoder.Finish after the element: the bytes, or the error the writer recorded.
DoFinishWrite ==
  /\ pc = "write" /\ ~enc.crashed /\ idx > Len(inp.elems)
  /\ \E r \in {EncoderFinish(enc)} :
       /\ out' = [op |-> "Finish", arg |-> 0, val |-> r.err, pre |-> d]
       /\ pc' = IF r.err = "nil" THEN "written" ELSE "rejected"
  /\ UNCHANGED <<d, lim, inp, enc, res, idx>>

WriteNext ==
  \/ DoEncodeDataElement
  \/ DoWriteElement
  \/ DoFinishWrite

SpecWrite == WriteInit /\ [][WriteNext]_vars

\* ------------------------------------------------------------------ Claims on SpecWrite

\* The one element of the scenario, its VR and its header's framing.
Written == inp.elems[1]

WrittenVR == EffectiveVR(Written)

WrittenFraming == Framing(inp.implicit, Written.Tag, WrittenVR)

\* The bytes of a header of the framing.
FramingSize(framing) == IF framing = "long" THEN 12 ELSE 8

\* The length field of the header at the start of the bytes, at its width.
LengthField(bo, framing, bytes) ==
  CASE framing = "implicit" -> Uint32(bo, SubSeq(bytes, 5, 8))
    [] framing = "short" -> Uint16(bo, SubSeq(bytes, 7, 8))
    [] OTHER -> Uint32(bo, SubSeq(bytes, 9, 12))

PadToEven(b) == IF Len(b) % 2 = 1 THEN b \o <<0>> ELSE b

RECURSIVE Joined(_, _)
\* The strings from the i-th on, with a backslash between two of them.
Joined(values, i) ==
  IF i > Len(values) THEN <<>>
  ELSE values[i].v \o (IF i < Len(values) THEN <<92>> ELSE <<>>) \o Joined(values, i + 1)

\* The element has been handed to the writer.
ElementWritten == idx = 2

\* The writer has recorded no error and the process runs.
Accepted == ~enc.crashed /\ enc.err = "nil" /\ pc # "rejected"

\* The encoder holds a header of the element's framing with the length of the
\* payload, and the payload after it.
HoldsElement(payload) ==
  enc.buf = RawHeader(inp.bo, WrittenFraming, Written.Tag, WrittenVR, Len(payload)) \o payload

\* The encoder holds a header with the length n and n bytes after it, the
\* last of them zero when it is a pad byte.
HoldsPadded(n, padded) ==
  /\ Len(enc.buf) = FramingSize(WrittenFraming) + n
  /\ Take(enc.buf, FramingSize(WrittenFraming))
       = RawHeader(inp.bo, WrittenFraming, Written.Tag, WrittenVR, n)
  /\ padded => enc.buf[Len(enc.buf)] = 0

\* The payload the claim gives an element: the blob, or the joined strings.
ClaimedPayload ==
  IF WrittenVR \in {"OB", "OW"} THEN Written.Value[1].v ELSE Joined(Written.Value, 1)

\* C16: on the write path every OB or OW blob of odd length and every payload
\* of joined strings of odd length is accepted and written with exactly one
\* trailing zero byte under a header of even length; none is refused.
C16_OddPadded ==
  (inp.kind = "pad" /\ ElementWritten) =>
    /\ Accepted
    /\ HoldsPadded(Len(PadToEven(ClaimedPayload)), Len(ClaimedPayload) % 2 = 1)
    /\ WrittenVR # "OW" => HoldsElement(PadToEven(ClaimedPayload))

\* C17: for every defined-length element the writer emits, in every transfer
\* syntax, the length field of the header, read at its width on disk (16 bits
\* in a short explicit header, 32 bits in a long explicit header and under
\* implicit framing), is the number of payload bytes emitted after the header,
\* for every payload size the writer accepts.
C17_LengthLaw ==
  (ElementWritten /\ ~Written.UndefinedLength /\ Accepted /\ enc.buf # <<>>) =>
    LengthField(inp.bo, WrittenFraming, enc.buf) = Len(enc.buf) - FramingSize(WrittenFraming)

\* A delimiter: the tag and a length of zero.
Delimiter(bo, tag) == RawHeader(bo, "implicit", tag, "", 0)

RECURSIVE NestedBytes(_, _, _)
RECURSIVE ChildrenBytes(_, _, _, _)

\* The bytes of the children from the i-th on.
ChildrenBytes(bo, implicit, values, i) ==
  IF i > Len(values) THEN <<>>
  ELSE NestedBytes(bo, implicit, values[i].v) \o ChildrenBytes(bo, implicit, values, i + 1)

\* The bytes the nesting law gives an element: a container of undefined length
\* is its header, its children and the delimiter of its kind; a container of
\* defined length is its header with the size of its children, and the
\* children; any other element is its header and its padded payload.
NestedBytes(bo, implicit, elem) ==
  IF elem.Tag = TagItem \/ EffectiveVR(elem) = "SQ"
  THEN IF elem.UndefinedLength
       THEN RawHeader(bo, Framing(implicit, elem.Tag, EffectiveVR(elem)), elem.Tag,
                      EffectiveVR(elem), undefinedLength)
            \o ChildrenBytes(bo, implicit, elem.Value, 1)
            \o Delimiter(bo, IF elem.Tag = TagItem THEN TagItemDelimitationItem
                             ELSE TagSequenceDelimitationItem)
       ELSE RawHeader(bo, Framing(implicit, elem.Tag, EffectiveVR(elem)), elem.Tag,
                      EffectiveVR(elem), Len(ChildrenBytes(bo, implicit, elem.Value, 1)))
            \o ChildrenBytes(bo, implicit, elem.Value, 1)
  ELSE RawHeader(bo, Framing(implicit, elem.Tag, EffectiveVR(elem)), elem.Tag,
                 EffectiveVR(elem), Len(PadToEven(Joined(elem.Value, 1))))
       \o PadToEven(Joined(elem.Value, 1))

\* The last n bytes the encoder holds.
LastBytes(n) == Drop(enc.buf, Len(enc.buf) - n)

\* C18: every undefined-length container the writer emits is closed by exactly
\* one delimiter of its kind after its last child, SequenceDelimitation for an
\* SQ and for encapsulated PixelData, ItemDelimitation for an Item; a
\* defined-length container has no delimiter; a child of an SQ that is not an
\* Item is an error.
C18_NestingLaw ==
  ElementWritten =>
    /\ inp.kind = "container" =>
         Accepted /\ enc.buf = NestedBytes(inp.bo, inp.implicit, Written)
    /\ inp.kind = "pixel" =>
         Accepted /\ LastBytes(8) = Delimiter(inp.bo, TagSequenceDelimitationItem)
    /\ inp.kind = "nonitem" => enc.err # "nil" /\ pc # "written"

\* ------------------------------------------------------------------ Claims on SpecCodec

\* The bytes the first element of the scenario has when every header of group
\* FFFE is a tag and a 32-bit length.
FirstBytes == NestedBytes(inp.bo, inp.implicit, inp.elems[1])

\* C19: the elements of group FFFE (Item, ItemDelimitation,
\* SequenceDelimitation) are framed implicitly under every transfer syntax, on
\* both paths: the writer emits the tag and a 32-bit length with no VR bytes,
\* the reader parses a tag and a 32-bit length and consumes no VR bytes, under
\* explicit VR too.
C19_ItemGroupImplicit ==
  (inp.kind \in {"sq", "container"} /\ inp.pass = 1) =>
    /\ NoCodecError
    /\ idx >= 2 => Take(enc.buf, Len(FirstBytes)) = FirstBytes
    /\ Len(res) >= 1 => res[1] = inp.elems[1]
    /\ (out.op = "ReadElement" /\ Len(res) = 1) => d.pos = Len(FirstBytes)

C19_Witness ==
  /\ inp.kind = "container" /\ inp.pass = 1 /\ inp.implicit = ExplicitVR
  /\ inp.elems[1].Tag = TagItem /\ ~inp.elems[1].UndefinedLength
  /\ inp.elems[1].Value # <<>>
  /\ Take(enc.buf, 8) = RawHeader(inp.bo, "implicit", TagItem, "NA", Len(enc.buf) - 8)
  /\ out.op = "ReadElement" /\ res = inp.elems /\ d.pos = Len(enc.buf)

\* ------------------------------------------------------------------ String lists written (SpecWrite)

\* The scenario's element holds a list of one or two strings.
StringListWritten ==
  inp.kind = "pad" /\ ElementWritten /\ WrittenVR \notin {"OB", "OW"}

\* ReadElement over the bytes of the encoder, under its transfer syntax.
ReadBack ==
  ReadElement(NewBytesDecoder(enc.buf, inp.bo, inp.implicit), [DropPixelData |-> FALSE])

\* C29: a string-list element with k >= 1 values is written with the payload
\* of its values in order with one backslash between two of them, and one
\* zero byte after it if and only if that length is odd; reading the bytes
\* back yields the same k values.
C29_StringListRoundTrip ==
  StringListWritten =>
    /\ Accepted
    /\ HoldsElement(PadToEven(Joined(Written.Value, 1)))
    /\ ReadBack.d.err = "nil" /\ ~ReadBack.d.crashed
    /\ ReadBack.elem.Value = Written.Value

\* ------------------------------------------------------------------ SpecParse
\* The file header written by an encoder and parsed by a decoder that are in
\* use: each has any transfer syntax and may hold an outer transfer syntax,
\* and the decoder an outer limit, on its stacks; the bytes reach the decoder
\* whole, cut short, or with one byte changed.

\* The encoder before WriteFileHeader: depth outer transfer syntaxes pushed.
PreparedEncoder(ts, depth) ==
  IF depth = 0 THEN NewEncoder(ts.bo, ts.implicit)
  ELSE PushTransferSyntax(NewEncoder(BigEndian, ExplicitVR), ts.bo, ts.implicit)

\* The decoder before ParseFileHeader.
PreparedDecoder(bytes, ts, depth) ==
  IF depth = 0 THEN NewBytesDecoder(bytes, ts.bo, ts.implicit)
  ELSE PushLimit(PushTransferSyntax(NewBytesDecoder(bytes, BigEndian, ExplicitVR),
                                    ts.bo, ts.implicit),
                 Len(bytes))

\* Where a header is cut: in the preamble, in "DICM", in the group length
\* element, in the metadata.
CutPoints == {0, 127, 128, 130, 132, 134, 138, 140, 143, 144, 146, 152, 170}

\* The bytes changed, <<position, value>>: the magic word, the tag and the
\* VR of the group length element, its length and its value.
ChangedBytes ==
  {<<129, 0>>, <<133, 3>>, <<135, 1>>, <<138, 83>>, <<139, 2>>, <<139, 5>>,
   <<141, 2>>, <<141, 255>>, <<144, 128>>, <<144, 255>>}

Damages ==
  {[kind |-> "none", at |-> 0, v |-> 0]}
  \cup { [kind |-> "cut", at |-> n, v |-> 0] : n \in CutPoints }
  \cup { [kind |-> "byte", at |-> c[1], v |-> c[2]] : c \in ChangedBytes }

Damaged(bytes, damage) ==
  CASE damage.kind = "cut" -> Take(bytes, damage.at)
    [] damage.kind = "byte" -> [bytes EXCEPT ![damage.at] = damage.v]
    [] OTHER -> bytes

ParseInit ==
  \E ts \in {ImplicitVRLittleEndian, ExplicitVRBigEndian}, withVersion \in BOOLEAN,
     w \in {"WriteFileHeader", "WriteFileHeaderOld"},
     syntax \in TransferSyntaxesUnderTest, depth \in {0, 1}, damage \in Damages :
    /\ w = "WriteFileHeaderOld" => ~withVersion
    /\ inp = [ts |-> ts, class |-> DigitalMammographyXRayImageStorage,
              inst |-> UnregisteredUID, w |-> w,
              metaElems |-> MetaElems(ts, DigitalMammographyXRayImageStorage,
                                      UnregisteredUID, withVersion),
              bo |-> syntax.bo, implicit |-> syntax.implicit, depth |-> depth,
              damage |-> damage]
    /\ enc = PreparedEncoder(syntax, depth)
    /\ d = NoDecoder
    /\ out = NoOut
    /\ lim = NoLim
    /\ res = <<>>
    /\ idx = 0
    /\ pc = "WriteFileHeader"

\* Encoder.Bytes, and a decoder in use over the bytes as they arrive.
DoOpenDecoder ==
  /\ pc = "EncoderFinish" /\ ~enc.crashed /\ enc.err = "nil"
  /\ d' = PreparedDecoder(Damaged(enc.buf, inp.damage), TransferSyntax(inp), inp.depth)
  /\ pc' = "ParseFileHeader"
  /\ UNCHANGED <<out, lim, inp, enc, res, idx>>

ParseNext ==
  \/ DoWriteFileHeader
  \/ DoWriteFileHeaderOld
  \/ DoOpenDecoder
  \/ DoParseFileHeader

SpecParse == ParseInit /\ [][ParseNext]_vars

\* ------------------------------------------------------------------ Claims on SpecParse

\* The decoder handed to ParseFileHeader, and the one a caller with an
\* explicit VR little-endian decoder hands over the same bytes.
DecoderBefore == PreparedDecoder(Damaged(enc.buf, inp.damage), TransferSyntax(inp), inp.depth)

ExplicitLittleEndianDecoder ==
  NewBytesDecoder(Damaged(enc.buf, inp.damage), LittleEndian, ExplicitVR)

SameSyntaxAndStacks(x, y) ==
  /\ TransferSyntax(x) = TransferSyntax(y)
  /\ x.oldTransferSyntaxes = y.oldTransferSyntaxes

\* C20: ParseFileHeader decodes the metadata group as explicit VR little
\* endian whatever transfer syntax the decoder had, and on return, with or
\* without an error, the decoder's transfer syntax, its transfer syntax stack
\* and its limit stack are those of before the call; WriteFileHeader leaves
\* the encoder's transfer syntax and stack as they were.
C20_SyntaxRestored ==
  /\ pc # "WriteFileHeader" =>
       /\ ~enc.crashed
       /\ SameSyntaxAndStacks(enc, PreparedEncoder(TransferSyntax(inp), inp.depth))
  /\ pc = "Finish" =>
       /\ ~d.crashed
       /\ SameSyntaxAndStacks(d, DecoderBefore)
       /\ d.oldLimits = DecoderBefore.oldLimits /\ d.limit = DecoderBefore.limit
       /\ res = ParseFileHeader(ExplicitLittleEndianDecoder).elems
       /\ d.err = ParseFileHeader(ExplicitLittleEndianDecoder).d.err
       /\ inp.damage.kind = "none" =>
            /\ d.err = "nil" /\ DecLen(d) = 0
            /\ res[1].Tag = TagFileMetaInformationGroupLength
            /\ HasOneString(res, TagTransferSyntaxUID, inp.ts)

C20_Witness ==
  /\ pc = "Finish" /\ inp.depth = 1 /\ inp.bo = BigEndian /\ inp.implicit = ExplicitVR
  /\ inp.damage.kind = "byte" /\ inp.damage.at = 141 /\ inp.damage.v = 255
  /\ d.err = "PushLimit" /\ Len(res) = 1
  /\ Len(d.oldLimits) = 1 /\ Len(d.oldTransferSyntaxes) = 1
  /\ d.bo = BigEndian /\ Len(enc.oldTransferSyntaxes) = 1

\* ------------------------------------------------------------------ SpecLimits
\* ReadElement and ParseFileHeader called by a caller that may have a limit
\* of its own installed: the whole input, or all of it but the last byte.

\* The limits a caller has pushed before it reads: none, or one of n bytes.
CallerLimits(bytes) ==
  {NoLim} \cup { [active |-> TRUE, n |-> n, got |-> 0] :
                 n \in {Len(bytes) - 1, Len(bytes)} \cap Nat }

\* The decoder over the scenario's bytes with the caller's limit installed.
LimitedDecoder(scenario, l) ==
  Let([NewBytesDecoder(scenario.bytes, scenario.bo, scenario.implicit)
         EXCEPT !.mem = scenario.mem],
      LAMBDA dec : IF l.active THEN PushLimit(dec, l.n) ELSE dec)

LimitReadInit ==
  /\ inp \in OneElementScenarios \cup PieceScenarios
  /\ lim \in CallerLimits(inp.bytes)
  /\ d = LimitedDecoder(inp, lim)
  /\ enc = NewEncoder(inp.bo, inp.implicit)
  /\ out = NoOut
  /\ res = <<>>
  /\ idx = 0
  /\ pc = "read"

LimitInit == LimitReadInit \/ ParseInit

LimitNext ==
  \/ DoReadElement
  \/ DoCodecFinish
  \/ DoWriteFileHeader
  \/ DoWriteFileHeaderOld
  \/ DoOpenDecoder
  \/ DoParseFileHeader

SpecLimits == LimitInit /\ [][LimitNext]_vars

\* ------------------------------------------------------------------ Claims on SpecLimits

\* The limit in force and the saved ones are the same in both decoders.
SameLimits(x, y) == x.limit = y.limit /\ x.oldLimits = y.oldLimits

\* C26: every call of ReadElement and of ParseFileHeader pops each limit it
\* pushed before it returns, with or without an error, so the limit stack
\* and the limit in force after the call are those of before it; when Finish
\* is called after the reading, only the caller's own limit is installed.
C26_LimitStackLaw ==
  /\ (out.op = "ReadElement" /\ ~d.crashed) => SameLimits(d, out.pre)
  /\ pc = "Finish" => ~d.crashed /\ SameLimits(d, DecoderBefore)
  /\ pc = "done" => SameLimits(d, LimitedDecoder(inp, lim))

\* A defined-length SQ under the caller's limit announces an Item longer
\* than itself: two limits were pushed, the second refused, and both are
\* popped on the error path.
C26_Witness ==
  /\ pc = "done" /\ lim.active /\ inp.kind = "pieces"
  /\ out.pre.err = "PushLimit" /\ Len(out.pre.oldLimits) = 1
  /\ out.pre.limit = lim.n /\ out.pre.pos > 0
  /\ inp.bytes = Natural(TransferSyntax(inp), TagReferencedImageSequence, "SQ", 8)
                 \o Natural(TransferSyntax(inp), TagItem, "NA", 10)

\* ------------------------------------------------------------------ Values read (SpecRead)

\* The state after the one ReadElement call on an element over a text payload.
TextRead == inp.kind = "text" /\ out.op = "ReadElement" /\ out.pre.pos = 0

\* The payload of the element of the stream.
TextPayload == Drop(inp.bytes, HeaderSize)

\* The element was read without an error.
ReadClean == ~d.crashed /\ d.err = "nil" /\ out.val # NilElement

RECURSIVE SwapPairs(_)
\* The bytes with the two bytes of every 16-bit word exchanged.
SwapPairs(b) ==
  IF Len(b) < 2 THEN <<>> ELSE <<b[2], b[1]>> \o SwapPairs(Drop(b, 2))

\* C21 as stated: an element read with VR OW, OB or UN has exactly one value,
\* a byte blob holding the payload bytes unmodified.
C21_OneBlobUnmodified ==
  (TextRead /\ inp.vr \in {"OW", "OB", "UN"} /\ inp.vl % 2 = 0) =>
    ReadClean /\ out.val.Value = <<VBytes(TextPayload)>>

\* C21 as the code has it: an element read with VR OB has exactly one value,
\* the blob of its payload bytes unmodified; one read with VR OW has exactly
\* one value, the blob of its payload's 16-bit words in the byte order of the
\* host, which is the payload under a little-endian transfer syntax and the
\* payload with the bytes of every word exchanged under a big-endian one; one
\* read with VR UN is read as a list of strings.
C21_BlobByVR ==
  (TextRead /\ inp.vr \in {"OW", "OB", "UN"} /\ inp.vl % 2 = 0) =>
    /\ ReadClean
    /\ out.val.VR = inp.vr
    /\ inp.vr = "OB" => out.val.Value = <<VBytes(TextPayload)>>
    /\ inp.vr = "OW" =>
         out.val.Value = <<VBytes(IF inp.bo = LittleEndian THEN TextPayload
                                  ELSE SwapPairs(TextPayload))>>
    /\ inp.vr = "UN" =>
         /\ \A i \in 1..Len(out.val.Value) : out.val.Value[i].t = "string"
         /\ out.val.Value = SplitValues(Trim(TextPayload))

C21_Witness ==
  /\ TextRead /\ inp.vr = "OW" /\ inp.bo = BigEndian
  /\ TextPayload = <<32, 65, 92, 0>>
  /\ ReadClean /\ out.val.Value = <<VBytes(<<65, 32, 0, 92>>)>>

\* Space and NUL, the bytes that pad a string.
PadBytes == {32, 0}

AllPad(s) == \A i \in 1..Len(s) : s[i] \in PadBytes

\* core is the payload without its trailing pad bytes and, when leading is
\* set, without its leading ones.
IsCore(payload, core, leading) ==
  \E i \in 0..Len(payload), j \in 0..Len(payload) :
    /\ i <= j /\ (leading \/ i = 0)
    /\ core = SubSeq(payload, i + 1, j)
    /\ AllPad(Take(payload, i)) /\ AllPad(Drop(payload, j))
    /\ core # <<>> => (core[Len(core)] \notin PadBytes /\ (leading => core[1] \notin PadBytes))

\* The values are the strings between the backslashes of core, in order, and
\* there is none when core is empty.
IsSplitOf(values, core) ==
  /\ core = <<>> => values = <<>>
  /\ core # <<>> =>
       /\ Len(values) >= 1 /\ Joined(values, 1) = core
       /\ \A k \in 1..Len(values) :
            values[k].t = "string" /\ ~Contains(values[k].v, 92)

\* An element of a string-list VR over a payload of even length.
ReadsStringList == TextRead /\ inp.vr \in {"PN", "UN"} /\ inp.vl % 2 = 0

\* C22 as stated: for string-list VRs the reader removes only trailing spaces
\* and NULs of the payload, keeps leading characters, splits on backslash and
\* yields the strings in order; none when nothing is left.
C22_TrailingTrimmed ==
  ReadsStringList =>
    /\ ReadClean
    /\ \E n \in 0..Len(TextPayload) :
         IsCore(TextPayload, Take(TextPayload, n), FALSE)
         /\ IsSplitOf(out.val.Value, Take(TextPayload, n))

\* C22 as the code has it: for string-list VRs the reader removes the leading
\* and the trailing spaces and NULs of the payload, splits what is left on
\* backslash and yields the strings in order; none when nothing is left.
C22_BothEndsTrimmed ==
  ReadsStringList =>
    /\ ReadClean
    /\ \E i \in 0..Len(TextPayload), j \in 0..Len(TextPayload) :
         /\ i <= j
         /\ IsCore(TextPayload, SubSeq(TextPayload, i + 1, j), TRUE)
         /\ IsSplitOf(out.val.Value, SubSeq(TextPayload, i + 1, j))

C22_Witness ==
  /\ ReadsStringList /\ inp.vr = "PN" /\ TextPayload = <<32, 65, 92, 0>>
  /\ ReadClean /\ out.val.Value = <<VString(<<65>>), VString(<<>>)>>

DelimiterTags == {TagItemDelimitationItem, TagSequenceDelimitationItem}

RECURSIVE HoldsDelimiter(_)
\* Some element of the tree below elem, elem included, has a delimiter child.
HoldsDelimiter(elem) ==
  \E i \in 1..Len(elem.Value) :
    /\ elem.Value[i].t = "Element"
    /\ elem.Value[i].v # NilElement
    /\ \/ elem.Value[i].v.Tag \in DelimiterTags
       \/ HoldsDelimiter(elem.Value[i].v)

\* C27: after a read that records no error, no element of the result, at
\* any depth, has a child with the tag ItemDelimitationItem or
\* SequenceDelimitationItem.
C27_NoDelimiterStored ==
  (~d.crashed /\ d.err = "nil") => \A i \in 1..Len(res) : ~HoldsDelimiter(res[i])

\* The stream holds one element in explicit VR whose tag is in the
\* dictionary with another VR than the header's, and ReadElement has read it.
MismatchRead ==
  /\ inp.kind = "element" /\ inp.implicit = ExplicitVR
  /\ out.op = "ReadElement" /\ out.pre.pos = 0
  /\ inp.tag.Group # itemSeqGroup /\ inp.tag # TagPixelData
  /\ FindTag(inp.tag).ok /\ FindTag(inp.tag).VR # inp.vr

SameKind == GetVRKind(inp.tag, FindTag(inp.tag).VR) = GetVRKind(inp.tag, inp.vr)

\* The length of the header is even and the payload is all there.
WholePayload == inp.vl \in 0..(Len(inp.bytes) - HeaderSize) /\ inp.vl % 2 = 0

\* C28: reading in explicit VR an element whose VR in the stream differs from
\* the dictionary VR of its tag: when the two VRs have the same kind the
\* reader takes the stream's VR, stores it in the element and goes on
\* without an error; when their kinds differ it records an error.
C28_MismatchedVR ==
  MismatchRead =>
    IF SameKind
    THEN WholePayload => (ReadClean /\ out.val.VR = inp.vr)
    ELSE d.err # "nil"

\* The bytes ReadElement has consumed.
Consumed == SubSeq(inp.bytes, out.pre.pos + 1, d.pos)

\* The bytes end with the delimiter of the tag, of length 0 or 2.
ClosedBy(bytes, tag) ==
  \E n \in {0, 2} :
    /\ Len(bytes) >= 8 + n
    /\ SubSeq(bytes, Len(bytes) - n - 7, Len(bytes) - n)
         = RawHeader(inp.bo, "implicit", tag, "NA", n)

\* The delimiter that closes an undefined-length element.
ClosingTag(elem) ==
  IF elem.Tag = TagItem THEN TagItemDelimitationItem ELSE TagSequenceDelimitationItem

\* C30: an undefined-length SQ, Item or encapsulated PixelData whose closing
\* delimiter is missing because the input ends first is reported as an
\* error: an undefined-length container that is returned without an error
\* was closed by its delimiter.
C30_MissingDelimiterReported ==
  (inp.kind = "pieces" /\ out.op = "ReadElement" /\ ReadClean /\ out.val.UndefinedLength)
    => ClosedBy(Consumed, ClosingTag(out.val))

\* ------------------------------------------------------------------ SpecNew
\* NewElement called with every tag of the dictionary and one outside it, on
\* lists of values of every Go type.

\* The longest list of values.
MaxValues == 2

\* One value of every type an element holds.
ValuePool ==
  <<VString(Bar), VBytes(<<1, 2>>), VUInt16(7), VUInt32(7), VInt16(-7), VInt32(-7),
    VFloat32(7), VFloat64(Zeros(7) \o <<7>>), VTag(TagRows), VElement(Item(FALSE, <<PatientNameElement>>)),
    VElement(PatientNameElement), VElement(NilElement)>>

NewInit ==
  /\ \E tag \in DictionaryTags \cup {Tag(2, 0)}, n \in 0..MaxValues,
        ks \in [1..MaxValues -> 1..Len(ValuePool)] :
       inp = [tag |-> tag, values |-> [i \in 1..n |-> ValuePool[ks[i]]]]
  /\ enc = NewEncoder(LittleEndian, ImplicitVR)
  /\ d = NoDecoder
  /\ out = NoOut
  /\ lim = NoLim
  /\ res = <<>>
  /\ idx = 0
  /\ pc = "NewElement"

DoNewElement ==
  /\ pc = "NewElement"
  /\ out' = [op |-> "NewElement", arg |-> 0, val |-> NewElement(inp.tag, inp.values),
             pre |-> d]
  /\ pc' = "done"
  /\ UNCHANGED <<d, lim, inp, enc, res, idx>>

NewNext == DoNewElement

SpecNew == NewInit /\ [][NewNext]_vars

\* The Go type the claim gives the values of a tag, by the kind of its VR.
ClaimedType(tag) ==
  Let(GetVRKindByVR(FindTag(tag).VR), LAMBDA kind :
    CASE kind = "VRString" -> "string"
      [] kind = "VRBytes" -> "bytes"
      [] kind = "VRUInt16" -> "uint16"
      [] kind = "VRUInt32" -> "uint32"
      [] kind = "VRInt16" -> "int16"
      [] kind = "VRInt32" -> "int32"
      [] kind = "VRFloat32" -> "float32"
      [] kind = "VRFloat64" -> "float64"
      [] kind = "VRTag" -> "Tag"
      [] OTHER -> "Element")

\* Every value has the type of the tag, and under an SQ it is an Item.
ValuesMatch(tag, values) ==
  \A i \in 1..Len(values) :
    /\ values[i].t = ClaimedType(tag)
    /\ FindTag(tag).VR = "SQ" => (values[i].v # NilElement /\ values[i].v.Tag = TagItem)

\* C23: NewElement succeeds, with an element of the tag's dictionary VR and
\* the values in order, if and only if the tag is in the dictionary and every
\* value has the type of the tag's VR kind (an Item element under an SQ, any
\* element under an Item); otherwise it returns an error.
C23_NewElement ==
  pc = "done" =>
    /\ ~out.val.crashed
    /\ out.val.ok <=> (FindTag(inp.tag).ok /\ ValuesMatch(inp.tag, inp.values))
    /\ out.val.ok =>
         out.val.elem = Element(inp.tag, FindTag(inp.tag).VR, FALSE, inp.values)
====
